---- MODULE Spec2Model ----
(***************************************************************************)
(* Model of the ImmichVR AI service: the model resource managers and the  *)
(* video and stereo services.                                              *)
(*                                                                         *)
(* DepthModel (app/models/depth_model.py) is translated statement by      *)
(* statement: every attribute read or write of the shared singleton is    *)
(* one atomic step of the thread that executes it (request threads of the *)
(* threaded Flask server, and the daemon idle-monitor thread).  No lock   *)
(* exists in the source, so none exists here.  SharpModel                 *)
(* (app/models/sharp_model.py), the splat manager, is translated the same *)
(* way.  The video service (app/services/video_service.py) and the stereo *)
(* functions (app/services/stereo_service.py) follow, each under a        *)
(* specification of its own in which one call is followed to its end.     *)
(*                                                                         *)
(* Time is counted in minutes.  An instance of a backend is a record      *)
(* [variant, device, id]; the id tells apart the objects that are alive   *)
(* at the same time.                                                       *)
(***************************************************************************)
EXTENDS Integers, Sequences, FiniteSets, TLC

VARIABLES
    pipeline,           \* DepthModel._pipeline: an instance, None, or Absent (after `del`)
    device,             \* DepthModel.device
    current_model_key,  \* DepthModel.current_model_key
    last_used,          \* DepthModel.last_used
    mock_downloaded,    \* DepthModel._mock_downloaded
    now,                \* time.time(), in minutes
    cuda,               \* torch.cuda.is_available()
    mps,                \* torch.backends.mps.is_available()
    MOCK_DOWNLOADS,     \* module flag read from the environment at import
    hf_cache,           \* the variants whose files the Hugging Face cache holds
    pc,                 \* per thread: the statement it is about to execute
    call,               \* per thread: the manager call it is executing
    tmp,                \* per thread: the backend instance its frame references
    out,                \* per thread: how its call ended, until it returns to its caller
    acts,               \* per thread: what its current call has done so far
    calls,              \* number of calls started so far
    last,               \* the arguments of the switch that returned True, while nothing
                        \* else has completed or evicted since
    sharp_model,        \* SharpModel._model: an instance, None, or Absent (after `del`)
    sharp_device,       \* SharpModel.device
    sharp_last_used,    \* SharpModel.last_used
    sharp_is_downloaded,\* SharpModel._is_downloaded: None until the first probe
    checkpoint,         \* the checkpoint file exists at SharpModel.checkpoint_path
    SHARP_AVAILABLE,    \* module flag: the ml-sharp library could be imported
    video,              \* the VideoService call in progress: its locals, the temporary
                        \* directories it made and what it has done so far
    stereo              \* the stereo_service call in progress: its arguments and results

mgr  == <<pipeline, device, current_model_key, last_used, mock_downloaded>>
env  == <<now, cuda, mps, MOCK_DOWNLOADS, hf_cache>>
sharp == <<sharp_model, sharp_device, sharp_last_used, sharp_is_downloaded,
           checkpoint, SHARP_AVAILABLE>>
vars == <<pipeline, device, current_model_key, last_used, mock_downloaded,
          now, cuda, mps, MOCK_DOWNLOADS, hf_cache, pc, call, tmp, out, acts, calls,
          last,
          sharp_model, sharp_device, sharp_last_used, sharp_is_downloaded,
          checkpoint, SHARP_AVAILABLE, video, stereo>>
media == <<video, stereo>>

----------------------------------------------------------------------------
(* Bounds of the exploration *)
MaxCalls == 2
MaxTime  == 62
MaxFrames == 5      \* frames of the videos given to the two pipelines
MaxBatch  == 3      \* batch_size given to process_sbs_video
MaxWidth  == 3      \* frame width given to the stereo functions
MaxHeight == 2      \* frame height given to the stereo functions
MaxPixels == 4      \* width * height of those frames

(* Program constants *)
timeout_minutes == 30

None == "None"

(* What the attribute _pipeline can hold besides a backend instance: Python's
   None, or nothing at all between `del self._pipeline` and the assignment
   that follows it *)
NoneInst == [variant |-> "None", device |-> "None", id |-> 0]
Absent   == [variant |-> "Absent", device |-> "Absent", id |-> 0]

AVAILABLE_MODELS == {"small", "base", "large"}
DEFAULT_MODEL    == "small"

CpuDevice  == "-1"
CudaDevice == "0"
MpsDevice  == "mps"

Callers == {"req1", "req2"}
Monitor == "monitor"
SharpMonitor == "sharp_monitor"
Monitors == {Monitor, SharpMonitor}
Threads == Callers \cup Monitors

(* Inputs the request layer can pass *)
KeyInputs    == {"small", "large", "bogus", None}
DeviceInputs == {"auto", "cpu", "gpu"}

SharpCalls == {"sharp_load", "sharp_predict", "sharp_unload", "sharp_download"}

NoCall == [name |-> "none", key |-> None, pref |-> "auto"]
NoOut  == [status |-> "none", by |-> None]
NoActs == [attempts |-> 0, threw |-> FALSE, unloads |-> 0, infers |-> 0,
           fetches |-> 0, reclaims |-> 0, raised |-> FALSE,
           was |-> [key |-> None, device |-> CpuDevice, last_used |-> 0,
                    downloaded |-> {}], again |-> FALSE,
           pre |-> NoneInst]
NoLast == [key |-> None, pref |-> "none"]

IsInstance(p) == p # NoneInst /\ p # Absent

----------------------------------------------------------------------------
(* ResolveDevice with the two accelerator tests in the other order *)
ResolveDeviceMpsFirst(device_type) ==
    IF device_type = "cpu" THEN CpuDevice
    ELSE IF mps THEN MpsDevice
    ELSE IF cuda THEN CudaDevice
    ELSE CpuDevice

(* Device selection, depth_model.py lines 108-126 *)
ResolveDevice(device_type) ==
    IF device_type = "cpu" THEN CpuDevice
    ELSE IF cuda THEN CudaDevice
    ELSE IF mps THEN MpsDevice
    ELSE CpuDevice

(* model_key and device_type as initialize() sees them for the call of t *)
ModelKey(t) ==
    IF call[t].key = None THEN DEFAULT_MODEL ELSE call[t].key

(* DeviceType for a manager that retains the preference: a load made from
   inside predict asks for cpu when the manager's device is the cpu *)
DeviceTypeRetained(t) ==
    IF call[t].name \in {"load", "switch", "sharp_load"} THEN call[t].pref
    ELSE IF call[t].name = "sharp_predict"
         THEN (IF sharp_device = "cpu" THEN "cpu" ELSE "auto")
         ELSE (IF device = CpuDevice THEN "cpu" ELSE "auto")

DeviceType(t) ==
    IF call[t].name \in {"load", "switch", "sharp_load"} THEN call[t].pref ELSE "auto"

(* get_status() *)
DeviceName(d) ==
    IF d = CudaDevice THEN "CUDA GPU"
    ELSE IF d = MpsDevice THEN "Apple MPS"
    ELSE "CPU"

is_loaded == pipeline # NoneInst

----------------------------------------------------------------------------
(* Control transfer *)
Go(t, l) ==
    /\ pc' = [pc EXCEPT ![t] = l]
    /\ UNCHANGED out

GoL(t, l) ==
    /\ Go(t, l)
    /\ UNCHANGED last

Done(t, st, by) ==
    /\ pc' = [pc EXCEPT ![t] = "done"]
    /\ out' = [out EXCEPT ![t] = [status |-> st, by |-> by]]
    /\ last' = IF call[t].name = "switch" /\ st = "True"
               THEN [key |-> call[t].key, pref |-> call[t].pref]
               ELSE NoLast

(* Ret where predict does not look at what initialize() or switch_model()
   returned (lines 254 and 258 without their tests) *)
RetUnchecked(t, v) ==
    IF call[t].name = "predict"
    THEN GoL(t, "pred_recheck")
    ELSE Done(t, IF v THEN "True" ELSE "False", None)

(* initialize() returns v to whoever called it *)
Ret(t, v) ==
    IF call[t].name = "predict"
    THEN IF v THEN GoL(t, "pred_recheck")
         ELSE Done(t, "RuntimeError", None)
    ELSE Done(t, IF v THEN "True" ELSE "False", None)

(* An exception raised at a statement; inTry: inside initialize()'s try *)
Throw(t, exc, inTry) ==
    IF inTry THEN GoL(t, "exc_pipeline")
    ELSE IF t \in Monitors THEN GoL(t, "mon_dead")
    ELSE Done(t, exc, None)

InInitialize(t) ==
    t \in Callers /\ call[t].name \in {"load", "switch", "predict"}

----------------------------------------------------------------------------
(* No VideoService method is running: its locals are unset and it has made no
   directory.  dirs are the temporary directories on disk, made the ones this
   call created; output is where the artifact of the call is; read, skipped,
   written, windows, reclaims and encoder record what the call has done *)
NoVideo ==
    [op |-> "none", pc |-> "idle", frames |-> 0, batch_size |-> 1,
     frame_files |-> <<>>, batch_start |-> 0, batch_frames |-> <<>>, pos |-> 0,
     frames_dir |-> None, depth_maps_dir |-> None, work_dir |-> None,
     dirs |-> {}, made |-> {}, read |-> <<>>, skipped |-> {}, written |-> <<>>,
     windows |-> <<>>, reclaims |-> 0, encoder |-> "none", output |-> "none",
     exc |-> None, result |-> "none"]

(* No stereo_service function is running *)
NoStereo ==
    [pc |-> "idle", frame |-> <<>>, depth_map |-> <<>>, divergence |-> 0,
     sbs_format |-> "SBS_FULL", displacement |-> <<>>, x_left |-> <<>>,
     x_right |-> <<>>, map_y |-> <<>>, left_eye |-> <<>>, right_eye |-> <<>>,
     sbs_shape |-> <<0, 0>>, exc |-> None]

InitServices ==
    /\ video = NoVideo
    /\ stereo = NoStereo

----------------------------------------------------------------------------
(* The state after DepthModel() has been constructed (lines 18-32) *)
InitManager ==
    /\ pipeline = NoneInst
    /\ device = CpuDevice
    /\ current_model_key = None
    /\ last_used = 0
    /\ mock_downloaded = {}
    /\ now = timeout_minutes + 1
    /\ hf_cache = {}               \* a fresh installation: nothing downloaded yet
    /\ pc = [t \in Threads |-> IF t \in Monitors THEN "mon_sleep" ELSE "idle"]
    /\ call = [t \in Threads |-> NoCall]
    /\ tmp = [t \in Threads |-> NoneInst]
    /\ out = [t \in Threads |-> NoOut]
    /\ acts = [t \in Threads |-> NoActs]
    /\ calls = 0
    /\ last = NoLast

(* The state after SharpModel() has been constructed (sharp_model.py lines
   36-45).  What the file system holds at checkpoint_path is first observed
   by the probe of line 68, which is where the model chooses it *)
InitSharp ==
    /\ sharp_model = NoneInst
    /\ sharp_device = "cpu"
    /\ sharp_last_used = 0
    /\ sharp_is_downloaded = None
    /\ checkpoint = FALSE

(* A production host with a CUDA device *)
Init ==
    /\ InitManager
    /\ InitSharp
    /\ InitServices
    /\ cuda = TRUE
    /\ mps = FALSE
    /\ MOCK_DOWNLOADS = FALSE
    /\ SHARP_AVAILABLE = TRUE

(* Any host: every accelerator availability, with and without the mock flag *)
InitAny ==
    /\ InitManager
    /\ InitSharp
    /\ InitServices
    /\ cuda \in BOOLEAN
    /\ mps \in BOOLEAN
    /\ MOCK_DOWNLOADS \in BOOLEAN
    /\ SHARP_AVAILABLE \in BOOLEAN

----------------------------------------------------------------------------
(* The ids of the backend objects that something still references *)
LiveIds ==
    {pipeline.id, sharp_model.id} \cup {tmp[t].id : t \in Threads}

FreshId == CHOOSE i \in 1..(Cardinality(Threads) + 2) : i \notin LiveIds

(* A request thread enters a manager call *)
EntryPoint(name) ==
    CASE name = "load"    -> "init_touch"
      [] name = "switch"  -> "sw_touch"
      [] name = "predict" -> "pred_touch"
      [] name = "unload"  -> "unl_check"
      [] name = "download" -> "dl_check"
      [] name = "delete"   -> "del_check"
      [] name = "sharp_load"    -> "s_touch"
      [] name = "sharp_predict" -> "sp_touch"
      [] name = "sharp_unload"  -> "sunl_check"
      [] name = "sharp_download" -> "s_isdl"

(* What the depth manager holds next to its backend instance *)
Fields ==
    [key |-> current_model_key, device |-> device, last_used |-> last_used,
     downloaded |-> mock_downloaded]

Begin(t, name, key, pref) ==
    /\ pc[t] = "idle"
    /\ calls < MaxCalls
    /\ calls' = calls + 1
    /\ call' = [call EXCEPT ![t] = [name |-> name, key |-> key, pref |-> pref]]
    /\ acts' = [acts EXCEPT ![t] =
                   [NoActs EXCEPT !.again = (name = "switch"
                                             /\ last = [key |-> key, pref |-> pref]),
                                  !.pre = IF name \in SharpCalls
                                          THEN sharp_model ELSE pipeline,
                                  !.was = Fields]]
    /\ pc' = [pc EXCEPT ![t] = EntryPoint(name)]
    /\ UNCHANGED <<media, mgr, env, sharp, tmp, out, last>>

StartLoad(t, keys, prefs) ==
    \E key \in keys, pref \in prefs : Begin(t, "load", key, pref)

StartSwitch(t, keys, prefs) ==
    \E key \in keys, pref \in prefs : Begin(t, "switch", key, pref)

StartPredict(t, keys) ==
    \E key \in keys : Begin(t, "predict", key, "auto")

StartUnload(t) ==
    Begin(t, "unload", None, "auto")

StartDownload(t, keys) ==
    \E key \in keys : Begin(t, "download", key, "auto")

StartDelete(t, keys) ==
    \E key \in keys : Begin(t, "delete", key, "auto")

(* The calls on the splat manager: the load route passes the preference,
   predict and unload take none *)
StartSharpLoad(t, prefs) ==
    \E pref \in prefs : Begin(t, "sharp_load", None, pref)

StartSharpPredict(t) ==
    Begin(t, "sharp_predict", None, "auto")

StartSharpUnload(t) ==
    Begin(t, "sharp_unload", None, "auto")

StartSharpDownload(t) ==
    Begin(t, "sharp_download", None, "auto")

(* The call has returned (or raised) to the request layer *)
Return(t) ==
    /\ pc[t] = "done"
    /\ pc' = [pc EXCEPT ![t] = "idle"]
    /\ call' = [call EXCEPT ![t] = NoCall]
    /\ out' = [out EXCEPT ![t] = NoOut]
    /\ acts' = [acts EXCEPT ![t] = NoActs]
    /\ UNCHANGED <<media, mgr, env, sharp, tmp, calls, last>>

----------------------------------------------------------------------------
(* DepthModel.switch_model, lines 230-235 *)
SwTouch(t) ==
    /\ pc[t] = "sw_touch"
    /\ last_used' = now
    /\ GoL(t, "init_touch")
    /\ UNCHANGED <<media, pipeline, device, current_model_key, mock_downloaded,
                   env, sharp, call, tmp, acts, calls>>

----------------------------------------------------------------------------
(* DepthModel.initialize *)

(* lines 64-71: touch the idle clock, default the key, reject unknown keys *)
InitTouch(t) ==
    /\ pc[t] = "init_touch"
    /\ last_used' = now
    /\ IF ModelKey(t) \notin AVAILABLE_MODELS
       THEN Ret(t, FALSE)
       ELSE GoL(t, "init_check")
    /\ UNCHANGED <<media, pipeline, device, current_model_key, mock_downloaded,
                   env, sharp, call, tmp, acts, calls>>

(* lines 79-89: the reload decision when the same key is resident *)
NeedsReload(device_type, dev) ==
    LET current_device_is_gpu == (dev # CpuDevice /\ dev # "cpu")
        requested_cpu == (device_type = "cpu")
        requested_gpu == (device_type = "gpu")
    IN  \/ (requested_cpu /\ current_device_is_gpu)
        \/ (requested_gpu /\ ~current_device_is_gpu)

(* InitCheck without the comparison of the keys of line 79: any resident
   model counts as already loaded *)
InitCheckAnyKey(t) ==
    /\ pc[t] = "init_check"
    /\ IF pipeline = Absent
       THEN Throw(t, "AttributeError", FALSE)
       ELSE IF pipeline # NoneInst /\ ~NeedsReload(DeviceType(t), device)
            THEN Ret(t, TRUE)
            ELSE GoL(t, "init_unloadq")
    /\ UNCHANGED <<media, mgr, env, sharp, call, tmp, acts, calls>>

(* lines 76-89 *)
InitCheck(t) ==
    /\ pc[t] = "init_check"
    /\ IF pipeline = Absent
       THEN Throw(t, "AttributeError", FALSE)
       ELSE IF pipeline # NoneInst /\ current_model_key = ModelKey(t)
                 /\ ~NeedsReload(DeviceType(t), device)
            THEN Ret(t, TRUE)
            ELSE GoL(t, "init_unloadq")
    /\ UNCHANGED <<media, mgr, env, sharp, call, tmp, acts, calls>>

(* lines 95-96 *)
InitUnloadQ(t) ==
    /\ pc[t] = "init_unloadq"
    /\ IF pipeline = Absent
       THEN Throw(t, "AttributeError", TRUE)
       ELSE IF pipeline # NoneInst
            THEN GoL(t, "unl_check")
            ELSE GoL(t, "init_device")
    /\ UNCHANGED <<media, mgr, env, sharp, call, tmp, acts, calls>>

(* line 101 under the mock flag, lines 110-128 otherwise *)
InitDevice(t) ==
    /\ pc[t] = "init_device"
    /\ device' = IF MOCK_DOWNLOADS THEN CpuDevice ELSE ResolveDevice(DeviceType(t))
    /\ GoL(t, "init_create")
    /\ UNCHANGED <<media, pipeline, current_model_key, last_used, mock_downloaded,
                   env, sharp, call, tmp, acts, calls>>

(* InitCreate with an automatic retry: the first failure of the backend's
   instantiation is swallowed and the instantiation is attempted again *)
InitCreateRetries(t) ==
    /\ pc[t] = "init_create"
    /\ \/ /\ tmp' = [tmp EXCEPT ![t] = [variant |-> ModelKey(t), device |-> device,
                                        id |-> FreshId]]
          /\ hf_cache' = IF MOCK_DOWNLOADS THEN hf_cache
                          ELSE hf_cache \cup {ModelKey(t)}
          /\ acts' = [acts EXCEPT ![t].attempts = @ + 1]
          /\ GoL(t, "init_store")
       \/ /\ ~MOCK_DOWNLOADS
          /\ hf_cache' \in {hf_cache, hf_cache \cup {ModelKey(t)}}
          /\ tmp' = tmp
          /\ acts' = [acts EXCEPT ![t].attempts = @ + 1, ![t].threw = TRUE]
          /\ IF acts[t].attempts = 0
             THEN GoL(t, "init_create")
             ELSE GoL(t, "exc_pipeline")
    /\ UNCHANGED <<media, mgr, now, cuda, mps, MOCK_DOWNLOADS, sharp, call, calls>>

(* The right-hand side of line 102 (the mock pipeline, which cannot fail) or
   of lines 140-144, pipeline(task, model, device=self.device): that call
   fetches the files of the model into the Hugging Face cache if they are
   not there, and either raises (with the files fetched or not) or returns a
   new backend instance on self.device *)
InitCreate(t) ==
    /\ pc[t] = "init_create"
    /\ \/ /\ tmp' = [tmp EXCEPT ![t] = [variant |-> ModelKey(t), device |-> device,
                                        id |-> FreshId]]
          /\ hf_cache' = IF MOCK_DOWNLOADS THEN hf_cache
                          ELSE hf_cache \cup {ModelKey(t)}
          /\ acts' = [acts EXCEPT ![t].attempts = @ + 1]
          /\ GoL(t, "init_store")
       \/ /\ ~MOCK_DOWNLOADS
          /\ hf_cache' \in {hf_cache, hf_cache \cup {ModelKey(t)}}
          /\ tmp' = tmp
          /\ acts' = [acts EXCEPT ![t].attempts = @ + 1, ![t].threw = TRUE]
          /\ GoL(t, "exc_pipeline")
    /\ UNCHANGED <<media, mgr, now, cuda, mps, MOCK_DOWNLOADS, sharp, call, calls>>

(* The assignment to self._pipeline of line 102 or line 140 *)
InitStore(t) ==
    /\ pc[t] = "init_store"
    /\ pipeline' = tmp[t]
    /\ tmp' = [tmp EXCEPT ![t] = NoneInst]
    /\ GoL(t, "init_key")
    /\ UNCHANGED <<media, device, current_model_key, last_used, mock_downloaded,
                   env, sharp, call, acts, calls>>

(* InitKey storing the key as the caller gave it, without the default of
   line 67 *)
InitKeyAsGiven(t) ==
    /\ pc[t] = "init_key"
    /\ current_model_key' = call[t].key
    /\ mock_downloaded' = IF MOCK_DOWNLOADS
                          THEN mock_downloaded \cup {ModelKey(t)}
                          ELSE mock_downloaded
    /\ Ret(t, TRUE)
    /\ UNCHANGED <<media, pipeline, device, last_used, env, sharp, call, tmp, acts, calls>>

(* lines 103-106 under the mock flag, lines 146-148 otherwise *)
InitKey(t) ==
    /\ pc[t] = "init_key"
    /\ current_model_key' = ModelKey(t)
    /\ mock_downloaded' = IF MOCK_DOWNLOADS
                          THEN mock_downloaded \cup {ModelKey(t)}
                          ELSE mock_downloaded
    /\ Ret(t, TRUE)
    /\ UNCHANGED <<media, pipeline, device, last_used, env, sharp, call, tmp, acts, calls>>

(* line 152 *)
ExcPipeline(t) ==
    /\ pc[t] = "exc_pipeline"
    /\ pipeline' = NoneInst
    /\ GoL(t, "exc_key")
    /\ UNCHANGED <<media, device, current_model_key, last_used, mock_downloaded,
                   env, sharp, call, tmp, acts, calls>>

(* lines 153-154 *)
ExcKey(t) ==
    /\ pc[t] = "exc_key"
    /\ current_model_key' = None
    /\ Ret(t, FALSE)
    /\ UNCHANGED <<media, pipeline, device, last_used, mock_downloaded,
                   env, sharp, call, tmp, acts, calls>>

----------------------------------------------------------------------------
(* DepthModel._unload_current_model, run by a request thread (explicit
   unload, or from initialize) or by the monitor thread *)
UnloadReturn(t) ==
    IF t = Monitor THEN GoL(t, "mon_sleep")
    ELSE IF InInitialize(t) THEN GoL(t, "init_device")
    ELSE IF call[t].name = "delete" THEN GoL(t, "del_remove")
    ELSE Done(t, "returned", None)

(* line 195 *)
UnlCheck(t) ==
    /\ pc[t] = "unl_check"
    /\ IF pipeline = Absent
       THEN Throw(t, "AttributeError", InInitialize(t))
       ELSE IF pipeline = NoneInst
            THEN UnloadReturn(t)
            ELSE GoL(t, "unl_del")
    /\ UNCHANGED <<media, mgr, env, sharp, call, tmp, acts, calls>>

(* line 197, del self._pipeline *)
UnlDel(t) ==
    /\ pc[t] = "unl_del"
    /\ IF pipeline = Absent
       THEN /\ Throw(t, "AttributeError", InInitialize(t))
            /\ UNCHANGED <<pipeline, acts>>
       ELSE /\ pipeline' = Absent
            /\ acts' = IF t \in Callers
                       THEN [acts EXCEPT ![t].unloads = @ + 1]
                       ELSE acts
            /\ Go(t, "unl_none")
            /\ last' = IF t = Monitor THEN NoLast ELSE last
    /\ UNCHANGED <<media, device, current_model_key, last_used, mock_downloaded,
                   env, sharp, call, tmp, calls>>

(* line 198 *)
UnlNone(t) ==
    /\ pc[t] = "unl_none"
    /\ pipeline' = NoneInst
    /\ GoL(t, "unl_key")
    /\ UNCHANGED <<media, device, current_model_key, last_used, mock_downloaded,
                   env, sharp, call, tmp, acts, calls>>

(* UnlKey without the assignment of line 199: the key of the unloaded model
   stays *)
UnlKeyKeepsKey(t) ==
    /\ pc[t] = "unl_key"
    /\ acts' = IF t \in Callers
               THEN [acts EXCEPT ![t].reclaims = @ + 1]
               ELSE acts
    /\ UnloadReturn(t)
    /\ UNCHANGED <<media, mgr, env, sharp, call, tmp, calls>>

(* lines 199-217: clear the key, then collect garbage and empty the caches *)
UnlKey(t) ==
    /\ pc[t] = "unl_key"
    /\ current_model_key' = None
    /\ acts' = IF t \in Callers
               THEN [acts EXCEPT ![t].reclaims = @ + 1]
               ELSE acts
    /\ UnloadReturn(t)
    /\ UNCHANGED <<media, pipeline, device, last_used, mock_downloaded,
                   env, sharp, call, tmp, calls>>

----------------------------------------------------------------------------
(* DepthModel.download_model *)

(* lines 165-173: reject unknown keys; in mock mode record the key *)
DlCheck(t) ==
    /\ pc[t] = "dl_check"
    /\ IF call[t].key \notin AVAILABLE_MODELS
       THEN /\ Done(t, "False", None)
            /\ UNCHANGED mock_downloaded
       ELSE IF MOCK_DOWNLOADS
       THEN /\ mock_downloaded' = mock_downloaded \cup {call[t].key}
            /\ Done(t, "True", None)
       ELSE /\ GoL(t, "dl_fetch")
            /\ UNCHANGED mock_downloaded
    /\ UNCHANGED <<media, pipeline, device, current_model_key, last_used,
                   env, sharp, call, tmp, acts, calls>>

(* lines 175-191: snapshot_download fetches the files into the cache; an
   exception (with the files fetched or not) makes the call return False *)
DlFetch(t) ==
    /\ pc[t] = "dl_fetch"
    /\ acts' = [acts EXCEPT ![t].fetches = @ + 1]
    /\ \/ /\ hf_cache' = hf_cache \cup {call[t].key}
          /\ Done(t, "True", None)
       \/ /\ hf_cache' \in {hf_cache, hf_cache \cup {call[t].key}}
          /\ Done(t, "False", None)
    /\ UNCHANGED <<media, mgr, now, cuda, mps, MOCK_DOWNLOADS, sharp, call, tmp, calls>>

----------------------------------------------------------------------------
(* DepthModel.delete_model *)

(* DelCheck without the comparison of line 365: deleting any variant unloads
   the resident model *)
DelCheckUnloadsAny(t) ==
    /\ pc[t] = "del_check"
    /\ GoL(t, "unl_check")
    /\ UNCHANGED <<media, mgr, env, sharp, call, tmp, acts, calls>>

(* lines 365-366: the variant to delete is the resident one: unload it *)
DelCheck(t) ==
    /\ pc[t] = "del_check"
    /\ IF current_model_key = call[t].key
       THEN GoL(t, "unl_check")
       ELSE GoL(t, "del_remove")
    /\ UNCHANGED <<media, mgr, env, sharp, call, tmp, acts, calls>>

(* lines 369-377: in mock mode forget the key; otherwise nothing is removed
   from the cache and the call reports success *)
DelRemove(t) ==
    /\ pc[t] = "del_remove"
    /\ mock_downloaded' = IF MOCK_DOWNLOADS
                          THEN mock_downloaded \ {call[t].key}
                          ELSE mock_downloaded
    /\ Done(t, "True", None)
    /\ UNCHANGED <<media, pipeline, device, current_model_key, last_used,
                   env, sharp, call, tmp, acts, calls>>

----------------------------------------------------------------------------
(* DepthModel._get_downloaded_models, lines 287-336, where scan is what the
   scan of the cache directory (or, if it raises, the directory check of
   lines 311-331) reports.  First without lines 333-334, then as written *)
GetDownloadedModelsAsProbed(scan) ==
    IF MOCK_DOWNLOADS THEN mock_downloaded ELSE scan

GetDownloadedModels(scan) ==
    LET downloaded == IF MOCK_DOWNLOADS THEN mock_downloaded ELSE scan
    IN  IF current_model_key # None /\ current_model_key \notin downloaded
        THEN downloaded \cup {current_model_key}
        ELSE downloaded

(* DepthModel.get_status, lines 338-350 *)
get_status(scan) ==
    [loaded |-> is_loaded,
     current_model |-> current_model_key,
     device |-> DeviceName(device),
     available_models |-> AVAILABLE_MODELS,
     downloaded_models |-> GetDownloadedModels(scan)]

----------------------------------------------------------------------------
(* DepthModel.predict *)

(* line 249 *)
PredTouch(t) ==
    /\ pc[t] = "pred_touch"
    /\ last_used' = now
    /\ GoL(t, "pred_check")
    /\ UNCHANGED <<media, pipeline, device, current_model_key, mock_downloaded,
                   env, sharp, call, tmp, acts, calls>>

(* PredCheck without the lazy initialization of lines 252-255 *)
PredCheckNoLazyLoad(t) ==
    /\ pc[t] = "pred_check"
    /\ IF pipeline = Absent
       THEN Throw(t, "AttributeError", FALSE)
       ELSE IF pipeline # NoneInst /\ call[t].key # None
                 /\ call[t].key # current_model_key
            THEN GoL(t, "sw_touch")
            ELSE GoL(t, "pred_recheck")
    /\ UNCHANGED <<media, mgr, env, sharp, call, tmp, acts, calls>>

(* lines 252-259 *)
PredCheck(t) ==
    /\ pc[t] = "pred_check"
    /\ IF pipeline = Absent
       THEN Throw(t, "AttributeError", FALSE)
       ELSE IF pipeline = NoneInst
            THEN GoL(t, "init_touch")
            ELSE IF call[t].key # None /\ call[t].key # current_model_key
                 THEN GoL(t, "sw_touch")
                 ELSE GoL(t, "pred_recheck")
    /\ UNCHANGED <<media, mgr, env, sharp, call, tmp, acts, calls>>

(* lines 261-262 *)
PredRecheck(t) ==
    /\ pc[t] = "pred_recheck"
    /\ IF pipeline = Absent
       THEN Throw(t, "AttributeError", FALSE)
       ELSE IF pipeline = NoneInst
            THEN Done(t, "RuntimeError", None)
            ELSE GoL(t, "pred_call")
    /\ UNCHANGED <<media, mgr, env, sharp, call, tmp, acts, calls>>

(* line 264: load the attribute self._pipeline and call what it holds *)
PredCall(t) ==
    /\ pc[t] = "pred_call"
    /\ IF pipeline = Absent
       THEN Throw(t, "AttributeError", FALSE) /\ tmp' = tmp
       ELSE IF pipeline = NoneInst
            THEN Done(t, "TypeError", None) /\ tmp' = tmp
            ELSE /\ tmp' = [tmp EXCEPT ![t] = pipeline]
                 /\ GoL(t, "pred_infer")
    /\ UNCHANGED <<media, mgr, env, sharp, call, acts, calls>>

(* line 264: the backend's inference returns its depth map *)
PredInfer(t) ==
    /\ pc[t] = "pred_infer"
    /\ acts' = [acts EXCEPT ![t].infers = @ + 1]
    /\ Done(t, "result", tmp[t].variant)
    /\ tmp' = [tmp EXCEPT ![t] = NoneInst]
    /\ UNCHANGED <<media, mgr, env, sharp, call, calls>>

----------------------------------------------------------------------------
(* DepthModel._start_monitor.monitor_loop *)

(* lines 41-42, after the sleep of line 47 *)
MonCheck ==
    /\ pc[Monitor] = "mon_sleep"
    /\ pipeline # NoneInst
    /\ IF pipeline = Absent
       THEN GoL(Monitor, "mon_dead")
       ELSE GoL(Monitor, "mon_elapsed")
    /\ UNCHANGED <<media, mgr, env, sharp, call, tmp, acts, calls>>

(* lines 43-46 *)
MonElapsed ==
    /\ pc[Monitor] = "mon_elapsed"
    /\ IF now - last_used > timeout_minutes
       THEN GoL(Monitor, "unl_check")
       ELSE GoL(Monitor, "mon_sleep")
    /\ UNCHANGED <<media, mgr, env, sharp, call, tmp, acts, calls>>

(* The clock *)
Advance(steps) ==
    /\ \E d \in steps :
          /\ now + d <= MaxTime
          /\ now' = now + d
    /\ UNCHANGED <<media, mgr, sharp, cuda, mps, MOCK_DOWNLOADS, hf_cache, pc, call, tmp,
                   out, acts, calls, last>>

----------------------------------------------------------------------------
(* SharpModel.load_model *)

(* Device selection, sharp_model.py lines 93-111 *)
SharpTargetDevice(device_type) ==
    IF device_type = "cpu" THEN "cpu"
    ELSE IF cuda THEN "cuda"
    ELSE IF mps THEN "mps"
    ELSE "cpu"

(* load_model() returns to whoever called it: predict (line 303) or the
   request layer *)
SharpLoadReturn(t) ==
    IF call[t].name = "sharp_predict" THEN GoL(t, "sp_run")
    ELSE Done(t, "returned", None)

(* line 91 *)
SharpLoadTouch(t) ==
    /\ pc[t] = "s_touch"
    /\ sharp_last_used' = now
    /\ GoL(t, "s_check")
    /\ UNCHANGED <<media, sharp_model, sharp_device, sharp_is_downloaded, checkpoint,
                   SHARP_AVAILABLE, mgr, env, call, tmp, acts, calls>>

(* lines 93-114 *)
SharpLoadCheck(t) ==
    /\ pc[t] = "s_check"
    /\ IF sharp_model = Absent
       THEN Throw(t, "AttributeError", FALSE)
       ELSE IF sharp_model # NoneInst
            THEN GoL(t, "s_cmpdev")
            ELSE GoL(t, "s_setdev")
    /\ UNCHANGED <<media, sharp, mgr, env, call, tmp, acts, calls>>

(* lines 115-120: reload only when the target device differs *)
SharpLoadCompareDevice(t) ==
    /\ pc[t] = "s_cmpdev"
    /\ IF sharp_device # SharpTargetDevice(DeviceType(t))
       THEN GoL(t, "sunl_check")
       ELSE SharpLoadReturn(t)
    /\ UNCHANGED <<media, sharp, mgr, env, call, tmp, acts, calls>>

(* lines 122-125 *)
SharpLoadSetDevice(t) ==
    /\ pc[t] = "s_setdev"
    /\ sharp_device' = SharpTargetDevice(DeviceType(t))
    /\ IF ~SHARP_AVAILABLE
       THEN Done(t, "ImportError", None)
       ELSE GoL(t, "s_isdl")
    /\ UNCHANGED <<media, sharp_model, sharp_last_used, sharp_is_downloaded, checkpoint,
                   SHARP_AVAILABLE, mgr, env, call, tmp, acts, calls>>

(* The checkpoint is there: download() returns True (lines 73 and 84) to
   the request layer, load_model goes on to line 130 *)
SharpDownloaded(t) ==
    IF call[t].name = "sharp_download"
    THEN Done(t, "True", None)
    ELSE GoL(t, "s_create")

(* SharpLoadIsDownloaded where a checkpoint that is not there is not
   downloaded *)
SharpLoadIsDownloadedNoFetch(t) ==
    /\ pc[t] = "s_isdl"
    /\ \/ /\ sharp_is_downloaded = None
          /\ \E exists \in BOOLEAN :
                /\ checkpoint' = exists
                /\ sharp_is_downloaded' = IF exists THEN "True" ELSE "False"
       \/ /\ sharp_is_downloaded # None
          /\ UNCHANGED <<checkpoint, sharp_is_downloaded>>
    /\ SharpDownloaded(t)
    /\ UNCHANGED <<media, sharp_model, sharp_device, sharp_last_used,
                   SHARP_AVAILABLE, mgr, env, call, tmp, acts, calls>>

(* lines 127-128 and 72-73, with is_downloaded() of lines 66-69: the first
   call probes the file system and caches what it finds, the later ones
   answer from the cache *)
SharpLoadIsDownloaded(t) ==
    /\ pc[t] = "s_isdl"
    /\ \/ /\ sharp_is_downloaded = None
          /\ \E exists \in BOOLEAN :
                /\ checkpoint' = exists
                /\ sharp_is_downloaded' = IF exists THEN "True" ELSE "False"
                /\ IF exists THEN SharpDownloaded(t) ELSE GoL(t, "s_download")
       \/ /\ sharp_is_downloaded # None
          /\ UNCHANGED <<checkpoint, sharp_is_downloaded>>
          /\ IF sharp_is_downloaded = "True"
             THEN SharpDownloaded(t)
             ELSE GoL(t, "s_download")
    /\ UNCHANGED <<media, sharp_model, sharp_device, sharp_last_used,
                   SHARP_AVAILABLE, mgr, env, call, tmp, acts, calls>>

(* download(), lines 72-81: the downloader writes the file and exits zero,
   or fails having written all, part or nothing of it *)
SharpDownload(t) ==
    /\ pc[t] = "s_download"
    /\ acts' = [acts EXCEPT ![t].fetches = @ + 1]
    /\ \/ /\ checkpoint' = TRUE
          /\ GoL(t, "s_dl_mark")
       \/ /\ checkpoint' \in BOOLEAN
          /\ GoL(t, "s_dl_except")
    /\ UNCHANGED <<media, sharp_model, sharp_device, sharp_last_used, sharp_is_downloaded,
                   SHARP_AVAILABLE, mgr, env, call, tmp, calls>>

(* lines 82-83 *)
SharpDownloadMark(t) ==
    /\ pc[t] = "s_dl_mark"
    /\ sharp_is_downloaded' = "True"
    /\ SharpDownloaded(t)
    /\ UNCHANGED <<media, sharp_model, sharp_device, sharp_last_used, checkpoint,
                   SHARP_AVAILABLE, mgr, env, call, tmp, acts, calls>>

(* SharpDownloadExcept without the unlink of line 86 *)
SharpDownloadExceptKeepsFile(t) ==
    /\ pc[t] = "s_dl_except"
    /\ Done(t, "RuntimeError", None)
    /\ UNCHANGED <<media, sharp, mgr, env, call, tmp, acts, calls>>

(* lines 84-86: the partial file is removed and RuntimeError raised, which
   load_model does not catch *)
SharpDownloadExcept(t) ==
    /\ pc[t] = "s_dl_except"
    /\ checkpoint' = FALSE
    /\ Done(t, "RuntimeError", None)
    /\ UNCHANGED <<media, sharp_model, sharp_device, sharp_last_used, sharp_is_downloaded,
                   SHARP_AVAILABLE, mgr, env, call, tmp, acts, calls>>

(* lines 131-142: build the predictor and load the checkpoint into it; that
   either raises or yields a model on self.device *)
SharpLoadCreate(t) ==
    /\ pc[t] = "s_create"
    /\ \/ /\ tmp' = [tmp EXCEPT ![t] = [variant |-> "sharp", device |-> sharp_device,
                                        id |-> FreshId]]
          /\ acts' = [acts EXCEPT ![t].attempts = @ + 1]
          /\ GoL(t, "s_store")
       \/ /\ tmp' = tmp
          /\ acts' = [acts EXCEPT ![t].attempts = @ + 1, ![t].threw = TRUE]
          /\ GoL(t, "s_exc")
    /\ UNCHANGED <<media, sharp, mgr, env, call, calls>>

(* lines 144-145 *)
SharpLoadStore(t) ==
    /\ pc[t] = "s_store"
    /\ sharp_model' = tmp[t]
    /\ tmp' = [tmp EXCEPT ![t] = NoneInst]
    /\ SharpLoadReturn(t)
    /\ UNCHANGED <<media, sharp_device, sharp_last_used, sharp_is_downloaded, checkpoint,
                   SHARP_AVAILABLE, mgr, env, call, acts, calls>>

(* lines 147-150: the failure is recorded and re-raised *)
SharpLoadExcept(t) ==
    /\ pc[t] = "s_exc"
    /\ sharp_model' = NoneInst
    /\ Done(t, "Exception", None)
    /\ UNCHANGED <<media, sharp_device, sharp_last_used, sharp_is_downloaded, checkpoint,
                   SHARP_AVAILABLE, mgr, env, call, tmp, acts, calls>>

----------------------------------------------------------------------------
(* SharpModel.unload_model, run by a request thread (explicit unload, or from
   load_model) or by the splat manager's monitor thread *)
SharpUnloadReturn(t) ==
    IF t = SharpMonitor THEN GoL(t, "mon_sleep")
    ELSE IF call[t].name \in {"sharp_load", "sharp_predict"} THEN GoL(t, "s_setdev")
    ELSE Done(t, "returned", None)

(* line 153 *)
SharpUnlCheck(t) ==
    /\ pc[t] = "sunl_check"
    /\ IF sharp_model = Absent
       THEN Throw(t, "AttributeError", FALSE)
       ELSE IF sharp_model = NoneInst
            THEN SharpUnloadReturn(t)
            ELSE GoL(t, "sunl_del")
    /\ UNCHANGED <<media, sharp, mgr, env, call, tmp, acts, calls>>

(* line 155, del self._model *)
SharpUnlDel(t) ==
    /\ pc[t] = "sunl_del"
    /\ IF sharp_model = Absent
       THEN /\ Throw(t, "AttributeError", FALSE)
            /\ UNCHANGED <<sharp_model, acts>>
       ELSE /\ sharp_model' = Absent
            /\ acts' = IF t \in Callers
                       THEN [acts EXCEPT ![t].unloads = @ + 1]
                       ELSE acts
            /\ GoL(t, "sunl_none")
    /\ UNCHANGED <<media, sharp_device, sharp_last_used, sharp_is_downloaded, checkpoint,
                   SHARP_AVAILABLE, mgr, env, call, tmp, calls>>

(* lines 156-172: clear the reference, collect garbage, empty the caches *)
SharpUnlNone(t) ==
    /\ pc[t] = "sunl_none"
    /\ sharp_model' = NoneInst
    /\ acts' = IF t \in Callers
               THEN [acts EXCEPT ![t].reclaims = @ + 1]
               ELSE acts
    /\ SharpUnloadReturn(t)
    /\ UNCHANGED <<media, sharp_device, sharp_last_used, sharp_is_downloaded, checkpoint,
                   SHARP_AVAILABLE, mgr, env, call, tmp, calls>>

----------------------------------------------------------------------------
(* SharpModel.predict *)

(* line 301 *)
SharpPredTouch(t) ==
    /\ pc[t] = "sp_touch"
    /\ sharp_last_used' = now
    /\ GoL(t, "sp_check")
    /\ UNCHANGED <<media, sharp_model, sharp_device, sharp_is_downloaded, checkpoint,
                   SHARP_AVAILABLE, mgr, env, call, tmp, acts, calls>>

(* lines 302-303: load_model() is called outside the try of line 307 *)
SharpPredCheck(t) ==
    /\ pc[t] = "sp_check"
    /\ IF sharp_model = Absent
       THEN Throw(t, "AttributeError", FALSE)
       ELSE IF sharp_model = NoneInst
            THEN GoL(t, "s_touch")
            ELSE GoL(t, "sp_run")
    /\ UNCHANGED <<media, sharp, mgr, env, call, tmp, acts, calls>>

(* lines 307-312: the image is read, or reading it raises *)
SharpPredRun(t) ==
    /\ pc[t] = "sp_run"
    /\ \/ GoL(t, "sp_call") /\ acts' = acts
       \/ GoL(t, "sp_except") /\ acts' = [acts EXCEPT ![t].raised = TRUE]
    /\ UNCHANGED <<media, sharp, mgr, env, call, tmp, calls>>

(* line 315 -> line 209: load the attribute self._model and call what it
   holds; calling None, or reading the deleted attribute, raises inside the
   try *)
SharpPredCall(t) ==
    /\ pc[t] = "sp_call"
    /\ IF IsInstance(sharp_model)
       THEN /\ tmp' = [tmp EXCEPT ![t] = sharp_model]
            /\ acts' = acts
            /\ GoL(t, "sp_infer")
       ELSE /\ tmp' = tmp
            /\ acts' = [acts EXCEPT ![t].raised = TRUE]
            /\ GoL(t, "sp_except")
    /\ UNCHANGED <<media, sharp, mgr, env, call, calls>>

(* lines 209-340: inference, sorting and saving succeed, or one of them
   raises *)
SharpPredInfer(t) ==
    /\ pc[t] = "sp_infer"
    /\ tmp' = [tmp EXCEPT ![t] = NoneInst]
    /\ \/ /\ acts' = [acts EXCEPT ![t].infers = @ + 1]
          /\ Done(t, "result", tmp[t].variant)
       \/ /\ acts' = [acts EXCEPT ![t].infers = @ + 1, ![t].raised = TRUE]
          /\ GoL(t, "sp_except")
    /\ UNCHANGED <<media, sharp, mgr, env, call, calls>>

(* SharpPredExcept without the handler of lines 343-358: what was raised
   reaches the caller as it is *)
SharpPredExceptUncaught(t) ==
    /\ pc[t] = "sp_except"
    /\ Done(t, "Exception", None)
    /\ UNCHANGED <<media, sharp, mgr, env, call, tmp, acts, calls>>

(* lines 342-358: emergency cleanup (gc.collect, torch.cuda.empty_cache),
   then RuntimeError in the place of what was raised *)
SharpPredExcept(t) ==
    /\ pc[t] = "sp_except"
    /\ acts' = [acts EXCEPT ![t].reclaims = @ + 1]
    /\ Done(t, "RuntimeError", None)
    /\ UNCHANGED <<media, sharp, mgr, env, call, tmp, calls>>

----------------------------------------------------------------------------
(* SharpModel._start_monitor.monitor_loop *)

(* line 57, after the sleep of line 62 *)
SharpMonCheck ==
    /\ pc[SharpMonitor] = "mon_sleep"
    /\ sharp_model # NoneInst
    /\ IF sharp_model = Absent
       THEN GoL(SharpMonitor, "mon_dead")
       ELSE GoL(SharpMonitor, "mon_elapsed")
    /\ UNCHANGED <<media, sharp, mgr, env, call, tmp, acts, calls>>

(* lines 58-61 *)
SharpMonElapsed ==
    /\ pc[SharpMonitor] = "mon_elapsed"
    /\ IF now - sharp_last_used > timeout_minutes
       THEN GoL(SharpMonitor, "sunl_check")
       ELSE GoL(SharpMonitor, "mon_sleep")
    /\ UNCHANGED <<media, sharp, mgr, env, call, tmp, acts, calls>>

----------------------------------------------------------------------------
UnloadStep(t) ==
    \/ UnlCheck(t) \/ UnlDel(t) \/ UnlNone(t) \/ UnlKey(t)

InitializeStep(t) ==
    \/ InitTouch(t) \/ InitCheck(t) \/ InitUnloadQ(t)
    \/ InitDevice(t) \/ InitCreate(t) \/ InitStore(t) \/ InitKey(t)
    \/ ExcPipeline(t) \/ ExcKey(t)

PredictStep(t) ==
    \/ PredTouch(t) \/ PredCheck(t) \/ PredRecheck(t) \/ PredCall(t) \/ PredInfer(t)

(* The steps of download_model and delete_model *)
StoreStep(t) ==
    \/ DlCheck(t) \/ DlFetch(t) \/ DelCheck(t) \/ DelRemove(t)

(* Everything a request thread does once it is inside a call *)
CallStep(t) ==
    \/ SwTouch(t) \/ InitializeStep(t) \/ PredictStep(t) \/ UnloadStep(t)
    \/ Return(t)

MonitorStep ==
    \/ MonCheck \/ MonElapsed \/ UnloadStep(Monitor)

SharpUnloadStep(t) ==
    \/ SharpUnlCheck(t) \/ SharpUnlDel(t) \/ SharpUnlNone(t)

SharpLoadStep(t) ==
    \/ SharpLoadTouch(t) \/ SharpLoadCheck(t) \/ SharpLoadCompareDevice(t)
    \/ SharpLoadSetDevice(t) \/ SharpLoadIsDownloaded(t)
    \/ SharpDownload(t) \/ SharpDownloadMark(t) \/ SharpDownloadExcept(t)
    \/ SharpLoadCreate(t) \/ SharpLoadStore(t) \/ SharpLoadExcept(t)

SharpPredictStep(t) ==
    \/ SharpPredTouch(t) \/ SharpPredCheck(t) \/ SharpPredRun(t)
    \/ SharpPredCall(t) \/ SharpPredInfer(t) \/ SharpPredExcept(t)

(* Everything a request thread does inside a call on the splat manager *)
SharpCallStep(t) ==
    \/ SharpLoadStep(t) \/ SharpPredictStep(t) \/ SharpUnloadStep(t)

SharpMonitorStep ==
    \/ SharpMonCheck \/ SharpMonElapsed \/ SharpUnloadStep(SharpMonitor)

AtRest(t) == pc[t] \in {"idle", "mon_sleep", "mon_dead"}

----------------------------------------------------------------------------
(* Requests served by concurrent threads, next to the monitor thread *)
ConcKeys == {"small", "large"}

Next ==
    \/ \E t \in Callers :
          \/ StartSwitch(t, ConcKeys, {"auto"})
          \/ StartPredict(t, ConcKeys)
          \/ StartUnload(t)
          \/ CallStep(t)
    \/ MonitorStep
    \/ Advance({timeout_minutes + 1})

Spec == Init /\ [][Next]_vars

(* Whose turn it is when calls do not overlap: a thread runs only while the
   others rest *)
RequestTurn == AtRest(Monitor) /\ AtRest(SharpMonitor)

MonitorTurn == AtRest("req1") /\ AtRest(SharpMonitor)

SharpMonitorTurn == AtRest("req1") /\ AtRest(Monitor)

(* The two managers are separate singletons and share no attribute: what is
   called on one changes nothing that the other reads.  A behaviour of
   non-overlapping calls therefore exercises one of them, and the other
   stays as constructed *)
DepthUntouched ==
    /\ pipeline = NoneInst /\ last_used = 0
    /\ mock_downloaded = {} /\ hf_cache = {}

SharpUntouched == sharp_model = NoneInst /\ sharp_last_used = 0

(* Neither manager reads the build flag of the other (MOCK_DOWNLOADS is read
   by depth_model.py only, SHARP_AVAILABLE by sharp_model.py only): the calls
   on one manager are explored for one value of the other's flag *)
DepthTurn == SharpUntouched /\ SHARP_AVAILABLE

SharpTurn == DepthUntouched /\ ~MOCK_DOWNLOADS

(* The keys given to download_model and delete_model *)
StoreKeys == {"small", "bogus"}

(* Calls that do not overlap: one request thread, and it and the monitors
   run only while the others rest *)

NextSeq ==
    \/ RequestTurn /\ DepthTurn /\ StartLoad("req1", KeyInputs, DeviceInputs)
    \/ RequestTurn /\ DepthTurn /\ StartSwitch("req1", KeyInputs, DeviceInputs)
    \/ RequestTurn /\ DepthTurn /\ StartPredict("req1", KeyInputs)
    \/ RequestTurn /\ DepthTurn /\ StartUnload("req1")
    \/ RequestTurn /\ DepthTurn /\ StartDownload("req1", StoreKeys)
    \/ RequestTurn /\ DepthTurn /\ StartDelete("req1", StoreKeys)
    \/ RequestTurn /\ SharpTurn /\ StartSharpLoad("req1", DeviceInputs)
    \/ RequestTurn /\ SharpTurn /\ StartSharpPredict("req1")
    \/ RequestTurn /\ SharpTurn /\ StartSharpUnload("req1")
    \/ RequestTurn /\ SharpTurn /\ StartSharpDownload("req1")
    \/ RequestTurn /\ SwTouch("req1")
    \/ RequestTurn /\ InitTouch("req1")
    \/ RequestTurn /\ InitCheck("req1")
    \/ RequestTurn /\ InitUnloadQ("req1")
    \/ RequestTurn /\ InitDevice("req1")
    \/ RequestTurn /\ InitCreate("req1")
    \/ RequestTurn /\ InitStore("req1")
    \/ RequestTurn /\ InitKey("req1")
    \/ RequestTurn /\ ExcPipeline("req1")
    \/ RequestTurn /\ ExcKey("req1")
    \/ RequestTurn /\ PredTouch("req1")
    \/ RequestTurn /\ PredCheck("req1")
    \/ RequestTurn /\ PredRecheck("req1")
    \/ RequestTurn /\ PredCall("req1")
    \/ RequestTurn /\ PredInfer("req1")
    \/ RequestTurn /\ UnlCheck("req1")
    \/ RequestTurn /\ UnlDel("req1")
    \/ RequestTurn /\ UnlNone("req1")
    \/ RequestTurn /\ UnlKey("req1")
    \/ RequestTurn /\ DlCheck("req1")
    \/ RequestTurn /\ DlFetch("req1")
    \/ RequestTurn /\ DelCheck("req1")
    \/ RequestTurn /\ DelRemove("req1")
    \/ RequestTurn /\ Return("req1")
    \/ RequestTurn /\ SharpLoadTouch("req1")
    \/ RequestTurn /\ SharpLoadCheck("req1")
    \/ RequestTurn /\ SharpLoadCompareDevice("req1")
    \/ RequestTurn /\ SharpLoadSetDevice("req1")
    \/ RequestTurn /\ SharpLoadIsDownloaded("req1")
    \/ RequestTurn /\ SharpDownload("req1")
    \/ RequestTurn /\ SharpDownloadMark("req1")
    \/ RequestTurn /\ SharpDownloadExcept("req1")
    \/ RequestTurn /\ SharpLoadCreate("req1")
    \/ RequestTurn /\ SharpLoadStore("req1")
    \/ RequestTurn /\ SharpLoadExcept("req1")
    \/ RequestTurn /\ SharpPredTouch("req1")
    \/ RequestTurn /\ SharpPredCheck("req1")
    \/ RequestTurn /\ SharpPredRun("req1")
    \/ RequestTurn /\ SharpPredCall("req1")
    \/ RequestTurn /\ SharpPredInfer("req1")
    \/ RequestTurn /\ SharpPredExcept("req1")
    \/ RequestTurn /\ SharpUnlCheck("req1")
    \/ RequestTurn /\ SharpUnlDel("req1")
    \/ RequestTurn /\ SharpUnlNone("req1")
    \/ MonitorTurn /\ MonCheck
    \/ MonitorTurn /\ MonElapsed
    \/ MonitorTurn /\ UnlCheck(Monitor)
    \/ MonitorTurn /\ UnlDel(Monitor)
    \/ MonitorTurn /\ UnlNone(Monitor)
    \/ MonitorTurn /\ UnlKey(Monitor)
    \/ SharpMonitorTurn /\ SharpMonCheck
    \/ SharpMonitorTurn /\ SharpMonElapsed
    \/ SharpMonitorTurn /\ SharpUnlCheck(SharpMonitor)
    \/ SharpMonitorTurn /\ SharpUnlDel(SharpMonitor)
    \/ SharpMonitorTurn /\ SharpUnlNone(SharpMonitor)
    \/ Advance({timeout_minutes, timeout_minutes + 1})

SpecSeq == InitAny /\ [][NextSeq]_vars

(* One request thread next to the monitor thread, both scheduled fairly: a
   Python thread that can run is eventually run.  A call lasts seconds, so
   the half hours pass between the calls *)
NextLive ==
    \/ StartSwitch("req1", ConcKeys, {"auto"})
    \/ StartPredict("req1", ConcKeys)
    \/ StartUnload("req1")
    \/ CallStep("req1")
    \/ MonitorStep
    \/ /\ pc["req1"] = "idle"
       /\ Advance({timeout_minutes, timeout_minutes + 1})

SpecLive ==
    /\ Init
    /\ [][NextLive]_vars
    /\ WF_vars(MonitorStep)
    /\ WF_vars(CallStep("req1"))

----------------------------------------------------------------------------
(* The two managers side by side: every operation is called on the depth
   manager (by req1, without a key: the default variant) and then, with the
   same preference and at the same time, on the splat manager (by req2) *)
Mirror(name) ==
    CASE name = "load"    -> "sharp_load"
      [] name = "predict" -> "sharp_predict"
      [] name = "unload"  -> "sharp_unload"

BothIdle == pc["req1"] = "idle" /\ pc["req2"] = "idle"

(* Both monitors have had their tick: neither has an eviction to do *)
Settled ==
    /\ pc[Monitor] = "mon_sleep" /\ pc[SharpMonitor] = "mon_sleep"
    /\ ~(IsInstance(pipeline) /\ now - last_used > timeout_minutes)
    /\ ~(IsInstance(sharp_model) /\ now - sharp_last_used > timeout_minutes)

Succeeded(t) == out[t].status \in {"True", "returned", "result"}

PairStartLoad ==
    BothIdle /\ Settled /\ StartLoad("req1", {None}, DeviceInputs)

PairStartPredict ==
    BothIdle /\ Settled /\ StartPredict("req1", {None})

PairStartUnload ==
    BothIdle /\ Settled /\ StartUnload("req1")

(* The call that req1 has finished is made on the splat manager *)
PairMirror ==
    /\ pc["req1"] = "done" /\ pc["req2"] = "idle"
    /\ call' = [call EXCEPT !["req2"] = [name |-> Mirror(call["req1"].name),
                                         key |-> None,
                                         pref |-> call["req1"].pref]]
    /\ acts' = [acts EXCEPT !["req2"] = [NoActs EXCEPT !.pre = sharp_model,
                                                       !.was = Fields]]
    /\ pc' = [pc EXCEPT !["req2"] = EntryPoint(Mirror(call["req1"].name))]
    /\ UNCHANGED <<media, mgr, env, sharp, tmp, out, calls, last>>

(* Both calls have succeeded and return, req1 first; a failure of either
   call ends the comparison *)
PairReturnDepth ==
    /\ pc["req2"] = "done"
    /\ Succeeded("req1") /\ Succeeded("req2")
    /\ Return("req1")

PairReturnSharp ==
    /\ pc["req1"] = "idle"
    /\ Return("req2")

(* A production host on which the splat library is installed *)
InitPair ==
    /\ InitManager
    /\ InitSharp
    /\ InitServices
    /\ cuda \in BOOLEAN
    /\ mps \in BOOLEAN
    /\ MOCK_DOWNLOADS = FALSE
    /\ SHARP_AVAILABLE = TRUE

NextPair ==
    \/ PairStartLoad
    \/ PairStartPredict
    \/ PairStartUnload
    \/ InitializeStep("req1")
    \/ PredictStep("req1")
    \/ UnloadStep("req1")
    \/ PairMirror
    \/ SharpCallStep("req2")
    \/ PairReturnDepth
    \/ PairReturnSharp
    \/ BothIdle /\ MonCheck
    \/ BothIdle /\ MonElapsed
    \/ BothIdle /\ UnlCheck(Monitor)
    \/ BothIdle /\ UnlDel(Monitor)
    \/ BothIdle /\ UnlNone(Monitor)
    \/ BothIdle /\ UnlKey(Monitor)
    \/ BothIdle /\ SharpMonCheck
    \/ BothIdle /\ SharpMonElapsed
    \/ BothIdle /\ SharpUnlCheck(SharpMonitor)
    \/ BothIdle /\ SharpUnlDel(SharpMonitor)
    \/ BothIdle /\ SharpUnlNone(SharpMonitor)
    \/ BothIdle /\ Advance({timeout_minutes, timeout_minutes + 1})

SpecPair == InitPair /\ [][NextPair]_vars

TypeOK ==
    /\ pipeline.variant \in AVAILABLE_MODELS \cup {"None", "Absent"}
    /\ sharp_model.variant \in {"sharp", "None", "Absent"}
    /\ sharp_device \in {"cpu", "cuda", "mps"}
    /\ sharp_is_downloaded \in {None, "True", "False"}
    /\ current_model_key \in AVAILABLE_MODELS \cup {None}
    /\ device \in {CpuDevice, CudaDevice, MpsDevice}
    /\ last_used <= now

----------------------------------------------------------------------------
(* What the claims speak about *)
Finished(t, names) == pc[t] = "done" /\ call[t].name \in names

InFlight(t, names) == pc[t] \notin {"idle", "done"} /\ call[t].name \in names

(* The variant a call asks for: its key, or the default one *)
Requested(t) == IF call[t].key = None THEN DEFAULT_MODEL ELSE call[t].key

(* The backend objects of the depth manager that exist *)
Allocated ==
    {p.id : p \in {q \in {pipeline} \cup {tmp[t] : t \in Threads} :
                      q.variant \in AVAILABLE_MODELS}}

(* The monitor is between its read of last_used and the end of its unload *)
MonitorEvicting == pc[Monitor] \in {"unl_check", "unl_del", "unl_none", "unl_key"}

IdleExpired == IsInstance(pipeline) /\ now - last_used > timeout_minutes

----------------------------------------------------------------------------
(* C1: under every interleaving of predict with the monitor's tick and with
   an explicit unload, predict never calls an absent or released backend:
   it returns a result or raises a load/inference failure, and never dies
   of calling None or of reading a deleted attribute *)
PredictNeverCallsAbsentBackend ==
    \A t \in Callers :
        Finished(t, {"predict"}) => out[t].status \in {"result", "RuntimeError"}

(* C2: the monitor's check-and-unload excludes the load/switch/predict of the
   same manager: the monitor is never evicting while such a call is
   between its start and its return *)
EvictionExcludesCalls ==
    ~(MonitorEvicting /\ \E t \in Callers : InFlight(t, {"predict", "load", "switch"}))

(* C3: in every reachable state, the intermediate states of a switch and of
   overlapping loads included, at most one backend instance is allocated *)
AtMostOneBackendAllocated ==
    Cardinality(Allocated) <= 1

(* C4: in every reachable state, whenever the status reports currentVariant
   = k, a backend instance is resident and it is the one built for k *)
StatusVariantIsResident ==
    current_model_key # None
        => (IsInstance(pipeline) /\ pipeline.variant = current_model_key)

(* C5: once a model is resident and has been idle for longer than the
   timeout, and no call is made, the monitor (scheduled fairly) unloads it:
   the manager becomes Unloaded unless a call starts first *)
IdleModelIsEvicted ==
    (IdleExpired /\ pc["req1"] = "idle")
        ~> (pipeline = NoneInst \/ pc["req1"] # "idle")

(* C6: when the backend instantiation throws during a load or a switch, the
   call reports failure after exactly one attempt and the manager is
   Unloaded, with neither a variant nor a backend recorded; a failed call
   keeps a resident model only if it released and attempted nothing.  The
   depth manager reports the failure by returning False, the splat manager
   by raising *)
FailedLoadLeavesUnloaded ==
    \A t \in Callers :
        /\ Finished(t, {"load", "switch"}) =>
            /\ acts[t].threw =>
                  /\ out[t].status = "False"
                  /\ acts[t].attempts = 1
                  /\ pipeline = NoneInst
                  /\ current_model_key = None
            /\ (out[t].status = "False" /\ pipeline # NoneInst) =>
                  /\ acts[t].unloads = 0
                  /\ acts[t].attempts = 0
                  /\ pipeline = acts[t].pre
        /\ Finished(t, {"sharp_load"}) =>
            /\ acts[t].threw =>
                  /\ out[t].status = "Exception"
                  /\ acts[t].attempts = 1
                  /\ sharp_model = NoneInst
            /\ (out[t].status # "returned" /\ sharp_model # NoneInst) =>
                  /\ acts[t].unloads = 0
                  /\ acts[t].attempts = 0
                  /\ sharp_model = acts[t].pre

(* a switch of a resident model to another variant has thrown *)
FailedLoadLeavesUnloadedWitness ==
    \E t \in Callers :
        /\ Finished(t, {"switch"})
        /\ acts[t].threw
        /\ IsInstance(acts[t].pre)
        /\ acts[t].unloads = 1

(* C7: on the production backend, a switch with a valid key that succeeded
   and is repeated at once with the same arguments returns success without
   unloading or instantiating anything: the resident instance is unchanged *)
RepeatedSwitchIsNoOp ==
    \A t \in Callers :
        (/\ Finished(t, {"switch"})
         /\ call[t].key \in AVAILABLE_MODELS
         /\ acts[t].again
         /\ ~MOCK_DOWNLOADS) =>
            /\ out[t].status = "True"
            /\ acts[t].unloads = 0
            /\ acts[t].attempts = 0
            /\ pipeline = acts[t].pre

(* C8: on the production backend, a load of the resident variant is a no-op
   exactly when the preference resolves to the resident device; otherwise
   the instance is unloaded and the variant reloaded on the resolved device *)
LoadIsNoOpIffResolvedDeviceMatches ==
    \A t \in Callers :
        (/\ Finished(t, {"load"})
         /\ ~MOCK_DOWNLOADS
         /\ IsInstance(acts[t].pre)
         /\ acts[t].pre.variant = Requested(t)
         /\ ~acts[t].threw) =>
            IF ResolveDevice(call[t].pref) = acts[t].pre.device
            THEN /\ acts[t].unloads = 0
                 /\ acts[t].attempts = 0
                 /\ pipeline = acts[t].pre
            ELSE /\ acts[t].unloads = 1
                 /\ acts[t].attempts = 1
                 /\ pipeline.variant = Requested(t)
                 /\ pipeline.device = ResolveDevice(call[t].pref)

(* C9: a predict on an Unloaded manager loads once, the requested variant or
   the default one, and then infers once; it ends Loaded with that variant
   and with the result of that variant's backend, as does a predict on a
   manager already Loaded with that variant *)
LazyPredictLoadsOnce ==
    \A t \in Callers :
        (Finished(t, {"predict"}) /\ Requested(t) \in AVAILABLE_MODELS) =>
            /\ acts[t].pre = NoneInst =>
                  /\ acts[t].attempts = 1
                  /\ acts[t].unloads = 0
                  /\ out[t].status = "result" <=> ~acts[t].threw
            /\ (acts[t].pre = NoneInst \/ acts[t].pre.variant = Requested(t)) =>
                  (out[t].status = "result" =>
                      /\ acts[t].infers = 1
                      /\ out[t].by = Requested(t)
                      /\ IsInstance(pipeline)
                      /\ pipeline.variant = Requested(t)
                      /\ current_model_key = Requested(t))

(* a predict without a key has loaded the default variant and inferred *)
LazyPredictLoadsOnceWitness ==
    \E t \in Callers :
        /\ Finished(t, {"predict"})
        /\ call[t].key = None
        /\ acts[t].pre = NoneInst
        /\ acts[t].attempts = 1
        /\ out[t].status = "result"

(* C10: whenever predict(image, k) with a valid key returns a result, the
   backend instance of variant k computed it, whatever overlaps the call *)
PredictUsesRequestedVariant ==
    \A t \in Callers :
        (/\ Finished(t, {"predict"})
         /\ call[t].key \in AVAILABLE_MODELS
         /\ out[t].status = "result") =>
            out[t].by = call[t].key

(* C11: if the lazy load or the switch that predict performs fails (the key
   is not in the catalog, or the instantiation of the backend raises),
   predict raises RuntimeError to its caller and the backend is not invoked
   for that call *)
FailedLoadInPredictRaises ==
    \A t \in Callers :
        Finished(t, {"predict"})
        /\ (acts[t].threw \/ Requested(t) \notin AVAILABLE_MODELS)
        => out[t].status = "RuntimeError" /\ acts[t].infers = 0

(* A predict whose switch away from a resident variant failed *)
FailedLoadInPredictRaisesWitness ==
    \E t \in Callers :
        /\ Finished(t, {"predict"})
        /\ acts[t].threw
        /\ IsInstance(acts[t].pre)
        /\ out[t].status = "RuntimeError"

(* C12: a load, switch, predict or download with a key that is not in the
   catalog fails and mutates nothing: the resident instance, the current
   key, the device, the downloaded set and the idle clock last_used are
   after the call what they were before it *)
RejectedCallMutatesNothing ==
    \A t \in Callers :
        Finished(t, {"load", "switch", "predict", "download"})
        /\ call[t].key \notin AVAILABLE_MODELS \cup {None}
        => /\ out[t].status \in {"False", "RuntimeError"}
           /\ pipeline = acts[t].pre
           /\ Fields = acts[t].was

(* The spec's name of a device of either manager *)
Choice(d) ==
    IF d \in {CudaDevice, "cuda"} THEN "CudaGpu"
    ELSE IF d \in {MpsDevice, "mps"} THEN "AppleGpu"
    ELSE "Cpu"

(* The fallback order, for preference pref and the host's accelerators *)
FollowsFallbackOrder(pref, c) ==
    /\ pref = "cpu" => c = "Cpu"
    /\ pref \in {"auto", "gpu"} /\ cuda => c = "CudaGpu"
    /\ pref \in {"auto", "gpu"} /\ ~cuda /\ mps => c = "AppleGpu"
    /\ pref \in {"auto", "gpu"} /\ ~cuda /\ ~mps => c = "Cpu"

(* C13: device selection is total and follows the fallback order: a load
   with a valid key whose instantiation does not raise succeeds for every
   preference and every accelerator availability (an explicit gpu request
   without accelerator included), and the backend it instantiated is on Cpu
   for cpu, and for auto and gpu on CudaGpu if CUDA is available, else on
   AppleGpu if MPS is available, else on Cpu; so for the splat manager.
   (Under the mock flag the depth manager selects no device.) *)
DeviceSelectionFollowsFallbackOrder ==
    \A t \in Callers :
        /\ (Finished(t, {"load", "switch"}) /\ ~MOCK_DOWNLOADS
            /\ ModelKey(t) \in AVAILABLE_MODELS /\ ~acts[t].threw) =>
               /\ out[t].status = "True"
               /\ IsInstance(pipeline)
               /\ acts[t].attempts = 1 =>
                     /\ pipeline.device = device
                     /\ FollowsFallbackOrder(call[t].pref, Choice(device))
        /\ (Finished(t, {"sharp_load"}) /\ SHARP_AVAILABLE
            /\ ~acts[t].threw /\ out[t].status # "RuntimeError") =>
               /\ out[t].status = "returned"
               /\ IsInstance(sharp_model)
               /\ sharp_model.device = sharp_device
               /\ FollowsFallbackOrder(call[t].pref, Choice(sharp_device))

(* A load that asked for the gpu on a host without accelerator has
   instantiated its backend on the CPU and reports success *)
DeviceSelectionFollowsFallbackOrderWitness ==
    \E t \in Callers :
        /\ Finished(t, {"load", "switch"})
        /\ call[t].pref = "gpu" /\ ~cuda /\ ~mps /\ ~MOCK_DOWNLOADS
        /\ acts[t].attempts = 1
        /\ out[t].status = "True"
        /\ IsInstance(pipeline) /\ pipeline.device = CpuDevice

(* C14: for every valid key, after load(key, "auto") has succeeded,
   get_status reports loaded, the key as the current variant, and a device
   that is one of CPU, CUDA GPU and Apple MPS and is the device of the
   resident backend instance *)
StatusAfterLoadAuto ==
    \A t \in Callers :
        (/\ Finished(t, {"load"})
         /\ call[t].pref = "auto"
         /\ call[t].key \in AVAILABLE_MODELS
         /\ out[t].status = "True") =>
            \A scan \in SUBSET AVAILABLE_MODELS :
                LET status == get_status(scan)
                IN  /\ status.loaded
                    /\ IsInstance(pipeline)
                    /\ status.current_model = call[t].key
                    /\ pipeline.variant = call[t].key
                    /\ status.device \in {"CPU", "CUDA GPU", "Apple MPS"}
                    /\ status.device = DeviceName(pipeline.device)

(* load(key, "auto") has replaced a resident model of another variant *)
StatusAfterLoadAutoWitness ==
    \E t \in Callers :
        /\ Finished(t, {"load"})
        /\ call[t].pref = "auto"
        /\ call[t].key \in AVAILABLE_MODELS
        /\ out[t].status = "True"
        /\ IsInstance(acts[t].pre)
        /\ acts[t].pre.variant # call[t].key
        /\ get_status(hf_cache).current_model = call[t].key

(* C15: in every reachable state, if a current variant is recorded then the
   downloaded variants that get_status reports contain it, whatever the
   scan of the cache reports and whatever was recorded as downloaded *)
CurrentVariantReportedDownloaded ==
    \A scan \in SUBSET AVAILABLE_MODELS :
        current_model_key # None
        => current_model_key \in get_status(scan).downloaded_models

(* A model is resident after a delete_model of another key, and the scan of
   the cache does not report its variant *)
CurrentVariantReportedDownloadedWitness ==
    \E t \in Callers :
        /\ Finished(t, {"delete"})
        /\ current_model_key # None
        /\ IsInstance(pipeline)
        /\ ~MOCK_DOWNLOADS
        /\ current_model_key \in get_status({}).downloaded_models

(* The resident instance is destroyed by this step *)
ResidentDestroyed == IsInstance(pipeline) /\ ~IsInstance(pipeline')

(* Thread t takes the step, out of its statement del self._pipeline *)
Deletes(t) == pc[t] = "unl_del" /\ pc'[t] # "unl_del"

(* t runs an explicit unload, a load or switch with a catalog key, a predict
   that asks for another catalog variant than the resident one, or the
   idle-timeout eviction *)
UnloadSwitchOrEviction(t) ==
    \/ t = Monitor /\ now - last_used > timeout_minutes
    \/ t \in Callers /\ call[t].name = "unload"
    \/ t \in Callers /\ call[t].name \in {"load", "switch"}
                      /\ ModelKey(t) \in AVAILABLE_MODELS
    \/ t \in Callers /\ call[t].name = "predict"
                      /\ call[t].key \in AVAILABLE_MODELS
                      /\ call[t].key # pipeline.variant

(* C16, as stated: a resident model leaves the Loaded state only through
   explicit unload, a model switch or idle-timeout eviction; no other
   operation (get_status, download_model, delete_model, a predict for the
   resident variant, a rejected call) destroys the resident instance *)
DestroyedOnlyByUnloadSwitchEviction ==
    [][ResidentDestroyed =>
          \E t \in Threads : Deletes(t) /\ UnloadSwitchOrEviction(t)]_vars

(* C16, amended: a resident model leaves the Loaded state only through
   explicit unload, a model switch, idle-timeout eviction, or delete_model
   of the resident variant; no other operation destroys the resident
   instance *)
DestroyedOnlyByUnloadSwitchEvictionOrDelete ==
    [][ResidentDestroyed =>
          \E t \in Threads :
              /\ Deletes(t)
              /\ \/ UnloadSwitchOrEviction(t)
                 \/ /\ t \in Callers
                    /\ call[t].name = "delete"
                    /\ call[t].key = pipeline.variant]_vars

(* delete_model of the resident variant has unloaded it *)
DestroyedByDeleteWitness ==
    \E t \in Callers :
        /\ Finished(t, {"delete"})
        /\ IsInstance(acts[t].pre)
        /\ acts[t].pre.variant = call[t].key
        /\ acts[t].reclaims = 1
        /\ pipeline = NoneInst
        /\ current_model_key = None

(* C17: the splat manager follows the lifecycle state machine of the depth
   manager restricted to one variant: after every sequence of load(pref),
   unload, predict and idle ticks made on both, on the same host, both are
   Loaded or both Unloaded, a resident model is on the same device in both,
   and the last call reloaded (released and instantiated) in both or in
   neither *)
ManagersInLockstep ==
    /\ (pc["req1"] = "done" /\ pc["req2"] = "done"
        /\ Succeeded("req1") /\ Succeeded("req2")) =>
           /\ IsInstance(pipeline) <=> IsInstance(sharp_model)
           /\ IsInstance(pipeline) /\ IsInstance(sharp_model) =>
                 Choice(pipeline.device) = Choice(sharp_model.device)
           /\ acts["req1"].attempts = acts["req2"].attempts
           /\ acts["req1"].unloads = acts["req2"].unloads
    /\ (BothIdle /\ Settled) =>
           (IsInstance(pipeline) <=> IsInstance(sharp_model))

(* The download that the call of t made has failed *)
DownloadFailed(t) == acts[t].fetches > 0 /\ sharp_is_downloaded # "True"

(* C18: the splat model is never Loaded unless the checkpoint is there,
   found by the probe or downloaded with success: load_model asks
   is_downloaded() first, and when the checkpoint is absent and its
   download fails, load_model raises RuntimeError without having
   instantiated anything and the manager is Unloaded afterwards *)
SplatLoadedOnlyAfterDownload ==
    /\ IsInstance(sharp_model) => sharp_is_downloaded = "True" /\ checkpoint
    /\ \A t \in Callers :
          /\ pc[t] \in {"s_create", "s_store"} =>
                sharp_is_downloaded = "True" /\ checkpoint
          /\ (Finished(t, {"sharp_load", "sharp_predict"}) /\ DownloadFailed(t)) =>
                /\ out[t].status = "RuntimeError"
                /\ acts[t].attempts = 0
                /\ acts[t].infers = 0
                /\ sharp_model = NoneInst

(* A load whose download of the absent checkpoint failed *)
SplatLoadedOnlyAfterDownloadWitness ==
    \E t \in Callers :
        /\ Finished(t, {"sharp_load"})
        /\ DownloadFailed(t)
        /\ out[t].status = "RuntimeError"
        /\ sharp_model = NoneInst

(* C19: when the download of the checkpoint fails, download() raises
   RuntimeError, and when the error reaches the caller no checkpoint file
   exists at the cache path and is_downloaded() is false, so that the next
   load or download fetches again; and a fetch happens only while no
   checkpoint is there *)
FailedDownloadLeavesNoFile ==
    \A t \in Callers :
        /\ (Finished(t, SharpCalls) /\ DownloadFailed(t)) =>
              /\ out[t].status = "RuntimeError"
              /\ ~checkpoint
              /\ sharp_is_downloaded = "False"
        /\ pc[t] \in {"s_download"} =>
              ~checkpoint /\ sharp_is_downloaded = "False"
        /\ (Finished(t, {"sharp_download"}) /\ out[t].status = "True"
            /\ acts[t].fetches = 0) => checkpoint
        /\ (/\ \/ Finished(t, {"sharp_download"})
               \/ Finished(t, {"sharp_load", "sharp_predict"}) /\ SHARP_AVAILABLE
            /\ sharp_is_downloaded = "False") => acts[t].fetches = 1

(* download(), called by the download route, has failed *)
FailedDownloadLeavesNoFileWitness ==
    \E t \in Callers :
        /\ Finished(t, {"sharp_download"})
        /\ DownloadFailed(t)
        /\ out[t].status = "RuntimeError"
        /\ ~checkpoint

(* C20: the splat predict first ensures that the model is loaded; if loading
   the image, the inference or the saving raises, predict raises
   RuntimeError in the place of what was raised, having requested the
   emergency memory reclamation once, and the model stays resident *)
SplatPredictFailureIsRuntimeError ==
    \A t \in Callers :
        /\ (call[t].name = "sharp_predict"
            /\ pc[t] \in {"sp_run", "sp_call", "sp_infer", "sp_except"}) =>
               IsInstance(sharp_model)
        /\ (Finished(t, {"sharp_predict"}) /\ acts[t].raised) =>
               /\ out[t].status = "RuntimeError"
               /\ acts[t].reclaims = 1
               /\ acts[t].infers <= 1
               /\ IsInstance(sharp_model)
        /\ (Finished(t, {"sharp_predict"}) /\ out[t].status = "result") =>
               /\ ~acts[t].raised
               /\ acts[t].infers = 1
               /\ acts[t].reclaims = 0

(* The inference of a splat predict has raised *)
SplatPredictFailureIsRuntimeErrorWitness ==
    \E t \in Callers :
        /\ Finished(t, {"sharp_predict"})
        /\ acts[t].raised
        /\ acts[t].infers = 1
        /\ out[t].status = "RuntimeError"
        /\ IsInstance(sharp_model)

----------------------------------------------------------------------------
(* VideoService (app/services/video_service.py) and the single-image route
   (app/routes/depth.py).  One call is followed from its entry to its return
   or to the exception that leaves it.  The external tools (ffmpeg, the file
   system) and the depth manager's predict() are seen by their outcomes: the
   steps of predict() itself are the Pred* actions above *)

managers == <<mgr, env, sharp, pc, call, tmp, out, acts, calls, last>>

(* The videos given to extract_frames: short ones, and two that decode to as
   many frames as the four digits of frame_%04d.png can number, and one more *)
FrameCounts == {0, 1, 2, 3, 9999, 10000}

Min(a, b) == IF a < b THEN a ELSE b

(* The decimal digits of n, most significant first *)
RECURSIVE Digits(_)
Digits(n) == IF n < 10 THEN <<n>> ELSE Digits(n \div 10) \o <<n % 10>>

(* ffmpeg's %0<pad>d: zeros on the left up to pad digits, never a cut *)
Padded(n, pad) ==
    IF Len(Digits(n)) < pad
    THEN [k \in 1..(pad - Len(Digits(n))) |-> 0] \o Digits(n)
    ELSE Digits(n)

(* The part of the file name 'frame_<digits>.png' in which two frames differ:
   the digits, then the dot.  A character is its rank in the character set, in
   which '.' comes before '0'..'9' *)
FrameName(n, pad) == [k \in 1..Len(Padded(n, pad)) |-> Padded(n, pad)[k] + 1] \o <<0>>

(* Python's order of two strings *)
NameLess(a, b) ==
    \/ \E k \in 1..Min(Len(a), Len(b)) :
          /\ a[k] < b[k]
          /\ \A j \in 1..(k - 1) : a[j] = b[j]
    \/ /\ Len(a) < Len(b)
       /\ \A j \in 1..Len(a) : a[j] = b[j]

(* sorted(Path(dir).glob('frame_*.png')) over the files numbered 1..n: the
   frames, named by their numbers, in the order of their file names *)
SortedFrames(n, pad) ==
    SortSeq([i \in 1..n |-> i],
            LAMBDA i, j : NameLess(FrameName(i, pad), FrameName(j, pad)))

(* An exception leaves the try block for the handler at `to` *)
VideoRaise(exc, to) ==
    video' = [video EXCEPT !.exc = exc, !.pc = to]

(* shutil.rmtree(d, ignore_errors=True) on a file system that lets it *)
Rmtree(dirs, d) == dirs \ {d}

(* The artifact of the call can be read where `output` says it is: a file in a
   directory is gone with the directory *)
OutputExists ==
    \/ video.output \in {"tmpfile", "memory", "response"}
    \/ video.output \in video.dirs

----------------------------------------------------------------------------
(* The first statement of the four routes that use the depth model
   (routes/depth.py lines 12-16; routes/video.py lines 12, 51 and 84): a
   request that finds no model resident is answered 503, any other goes on to
   its service *)
FirstStep(op) ==
    CASE op = "process_sbs_video"   -> "sbs_mkdtemp"
      [] op = "process_depth_video" -> "dv_mkdtemp"
      [] op = "extract_frames"      -> "ex_mkdtemp"
      [] op = "process_depth"       -> "pd_predict"

RouteGuard ==
    /\ video.pc = "route_guard"
    /\ IF is_loaded
       THEN video' = [video EXCEPT !.pc = FirstStep(video.op)]
       ELSE video' = [video EXCEPT !.result = "503", !.pc = "done"]
    /\ UNCHANGED <<managers, stereo>>

----------------------------------------------------------------------------
(* VideoService.process_sbs_video *)

(* The route passes int(request.args.get('batch_size', 10)) as it comes
   (routes/video.py lines 96-103): zero and negative sizes reach the service *)
StartProcessSbsVideo ==
    /\ video.op = "none"
    /\ \E n \in 0..MaxFrames, b \in (-1)..MaxBatch :
          video' = [video EXCEPT !.op = "process_sbs_video", !.pc = "route_guard",
                                 !.frames = n, !.batch_size = b]
    /\ UNCHANGED <<managers, stereo>>

(* lines 98-102: the working directory and its two subdirectories *)
SbsMkdtemp ==
    /\ video.pc = "sbs_mkdtemp"
    /\ \/ video' = [video EXCEPT !.work_dir = "work", !.dirs = @ \cup {"work"},
                                 !.made = @ \cup {"work"}, !.pc = "sbs_extract"]
       \/ VideoRaise("OSError", "sbs_finally")
    /\ UNCHANGED <<managers, stereo>>

(* lines 109-115: ffmpeg writes every frame as frame_%06d.png; check=True and
   timeout=300 turn a non-zero exit and a slow decoder into exceptions *)
SbsExtract ==
    /\ video.pc = "sbs_extract"
    /\ \/ video' = [video EXCEPT !.pc = "sbs_list"]
       \/ \E e \in {"CalledProcessError", "TimeoutExpired"} :
             VideoRaise(e, "sbs_finally")
    /\ UNCHANGED <<managers, stereo>>

(* lines 117-118 *)
SbsList ==
    /\ video.pc = "sbs_list"
    /\ video' = [video EXCEPT !.frame_files = SortedFrames(video.frames, 6),
                              !.batch_start = 0, !.pc = "sbs_window"]
    /\ UNCHANGED <<managers, stereo>>

(* range(start, stop, step) has a next value at cur *)
InRange(cur, stop, step) ==
    IF step > 0 THEN cur < stop ELSE cur > stop

(* SbsWindow where a step of zero gives an empty range and raises nothing *)
SbsWindowZeroStepEmpty ==
    /\ video.pc = "sbs_window"
    /\ LET total_frames == Len(video.frame_files)
           batch_end == Min(video.batch_start + video.batch_size, total_frames)
           batch_frames == SubSeq(video.frame_files, video.batch_start + 1, batch_end)
       IN  IF video.batch_size # 0
              /\ InRange(video.batch_start, total_frames, video.batch_size)
           THEN video' = [video EXCEPT !.batch_frames = batch_frames, !.pos = 1,
                                       !.windows = Append(@, batch_frames),
                                       !.pc = "sbs_read"]
           ELSE video' = [video EXCEPT !.pc = "sbs_encode"]
    /\ UNCHANGED <<managers, stereo>>

(* lines 121-123: the next value of range(0, total_frames, batch_size), or the
   end of the loop; range() raises ValueError for a step of zero and is empty
   for a negative step *)
SbsWindow ==
    /\ video.pc = "sbs_window"
    /\ LET total_frames == Len(video.frame_files)
           batch_end == Min(video.batch_start + video.batch_size, total_frames)
           batch_frames == SubSeq(video.frame_files, video.batch_start + 1, batch_end)
       IN  IF video.batch_size = 0
           THEN VideoRaise("ValueError", "sbs_finally")
           ELSE IF InRange(video.batch_start, total_frames, video.batch_size)
           THEN video' = [video EXCEPT !.batch_frames = batch_frames, !.pos = 1,
                                       !.windows = Append(@, batch_frames),
                                       !.pc = "sbs_read"]
           ELSE video' = [video EXCEPT !.pc = "sbs_encode"]
    /\ UNCHANGED <<managers, stereo>>

(* lines 125-127: cv2.imread returns None for a file it cannot decode *)
SbsRead ==
    /\ video.pc = "sbs_read"
    /\ IF video.pos <= Len(video.batch_frames)
       THEN LET frame_path == video.batch_frames[video.pos]
            IN  \/ video' = [video EXCEPT !.read = Append(@, frame_path),
                                          !.pc = "sbs_depth"]
                \/ video' = [video EXCEPT !.read = Append(@, frame_path),
                                          !.skipped = @ \cup {frame_path},
                                          !.pos = @ + 1]
       ELSE video' = [video EXCEPT !.pc = "sbs_reclaim"]
    /\ UNCHANGED <<managers, stereo>>

(* lines 129-132: process_frame_depth(frame) runs model.predict, which returns
   a depth map or raises; nothing catches what it raises *)
SbsDepth ==
    /\ video.pc = "sbs_depth"
    /\ \/ video' = [video EXCEPT !.pc = "sbs_write"]
       \/ VideoRaise("RuntimeError", "sbs_finally")
    /\ UNCHANGED <<managers, stereo>>

(* SbsWrite where the SBS frame is filed under a running count, not under the
   name of its source frame *)
SbsWriteRenumbered ==
    /\ video.pc = "sbs_write"
    /\ video' = [video EXCEPT !.written = Append(@, Len(video.written) + 1),
                              !.pos = @ + 1, !.pc = "sbs_read"]
    /\ UNCHANGED <<managers, stereo>>

(* lines 134-137: the stereo pair, the SBS frame, and its file under the name
   of the source frame *)
SbsWrite ==
    /\ video.pc = "sbs_write"
    /\ video' = [video EXCEPT !.written = Append(@, video.batch_frames[video.pos]),
                              !.pos = @ + 1, !.pc = "sbs_read"]
    /\ UNCHANGED <<managers, stereo>>

(* lines 139-140, and the step of range() *)
SbsReclaim ==
    /\ video.pc = "sbs_reclaim"
    /\ video' = [video EXCEPT !.reclaims = IF cuda THEN @ + 1 ELSE @,
                              !.batch_start = @ + video.batch_size,
                              !.pc = "sbs_window"]
    /\ UNCHANGED <<managers, stereo>>

(* lines 143-161: get_video_fps never raises; the encoder runs with check=True
   and timeout=600, writes output_path inside the working directory (line 145)
   and finds nothing to encode when no frame was written *)
SbsEncode ==
    /\ video.pc = "sbs_encode"
    /\ \/ /\ video.written # <<>>
          /\ video' = [video EXCEPT !.encoder = "started", !.output = video.work_dir,
                                    !.pc = "sbs_move"]
       \/ \E e \in {"CalledProcessError", "TimeoutExpired"} :
             video' = [video EXCEPT !.encoder = "started", !.exc = e,
                                    !.pc = "sbs_finally"]
    /\ UNCHANGED <<managers, stereo>>

(* lines 165-167: the output leaves the working directory for a file of its
   own, and `return final_output` enters the finally block *)
SbsMove ==
    /\ video.pc = "sbs_move"
    /\ video' = [video EXCEPT !.output = "tmpfile", !.pc = "sbs_finally"]
    /\ UNCHANGED <<managers, stereo>>

(* SbsFinally where the working directory is removed at the end of the try
   block, which an exception does not reach *)
SbsFinallyOnSuccessOnly ==
    /\ video.pc = "sbs_finally"
    /\ video' = [video EXCEPT
                    !.dirs = IF video.exc = None /\ video.work_dir \in video.dirs
                             THEN Rmtree(@, video.work_dir) ELSE @,
                    !.result = IF video.exc = None THEN "returned" ELSE "raised",
                    !.pc = "done"]
    /\ UNCHANGED <<managers, stereo>>

(* lines 169-171, then the return or the exception on its way *)
SbsFinally ==
    /\ video.pc = "sbs_finally"
    /\ video' = [video EXCEPT
                    !.dirs = IF video.work_dir # None /\ video.work_dir \in video.dirs
                             THEN Rmtree(@, video.work_dir) ELSE @,
                    !.result = IF video.exc = None THEN "returned" ELSE "raised",
                    !.pc = "done"]
    /\ UNCHANGED <<managers, stereo>>

----------------------------------------------------------------------------
(* VideoService.extract_frames, called by the frame-extraction route and by
   process_depth_video *)

StartExtractFrames ==
    /\ video.op = "none"
    /\ \E n \in FrameCounts :
          video' = [video EXCEPT !.op = "extract_frames", !.pc = "route_guard",
                                 !.frames = n]
    /\ UNCHANGED <<managers, stereo>>

(* What leaves extract_frames reaches its caller *)
ExtractRaised(exc) ==
    IF video.op = "process_depth_video"
    THEN VideoRaise(exc, "dv_finally")
    ELSE video' = [video EXCEPT !.exc = exc, !.result = "raised", !.pc = "done"]

(* line 21: outside the try block *)
ExMkdtemp ==
    /\ video.pc = "ex_mkdtemp"
    /\ \/ video' = [video EXCEPT !.dirs = @ \cup {"frames"},
                                 !.made = @ \cup {"frames"}, !.pc = "ex_run"]
       \/ ExtractRaised("OSError")
    /\ UNCHANGED <<managers, stereo>>

(* lines 23-42: ffmpeg writes frame_%04d.png, at most max_frames of them, in
   60 seconds; a non-zero exit is raised as Exception (line 42) *)
ExRun ==
    /\ video.pc = "ex_run"
    /\ \/ video' = [video EXCEPT !.pc = "ex_sort"]
       \/ \E e \in {"Exception", "TimeoutExpired", "OSError"} :
             VideoRaise(e, "ex_except")
    /\ UNCHANGED <<managers, stereo>>

(* lines 44-45: the sorted list and the directory go to the caller; line 61
   binds them in process_depth_video *)
ExSort ==
    /\ video.pc = "ex_sort"
    /\ \/ IF video.op = "process_depth_video"
          THEN video' = [video EXCEPT !.frame_files = SortedFrames(video.frames, 4),
                                      !.frames_dir = "frames", !.pos = 1,
                                      !.pc = "dv_read"]
          ELSE video' = [video EXCEPT !.frame_files = SortedFrames(video.frames, 4),
                                      !.frames_dir = "frames",
                                      !.result = "returned", !.pc = "done"]
       \/ VideoRaise("OSError", "ex_except")
    /\ UNCHANGED <<managers, stereo>>

(* ExExcept without the rmtree of line 48 *)
ExExceptKeepsDir ==
    /\ video.pc = "ex_except"
    /\ IF video.op = "process_depth_video"
       THEN video' = [video EXCEPT !.pc = "dv_finally"]
       ELSE video' = [video EXCEPT !.result = "raised", !.pc = "done"]
    /\ UNCHANGED <<managers, stereo>>

(* lines 46-49 *)
ExExcept ==
    /\ video.pc = "ex_except"
    /\ LET removed == [video EXCEPT !.dirs = Rmtree(@, "frames")]
       IN  IF video.op = "process_depth_video"
           THEN video' = [removed EXCEPT !.pc = "dv_finally"]
           ELSE video' = [removed EXCEPT !.result = "raised", !.pc = "done"]
    /\ UNCHANGED <<managers, stereo>>

----------------------------------------------------------------------------
(* VideoService.process_depth_video *)

StartProcessDepthVideo ==
    /\ video.op = "none"
    /\ \E n \in 0..MaxFrames :
          video' = [video EXCEPT !.op = "process_depth_video", !.pc = "route_guard",
                                 !.frames = n]
    /\ UNCHANGED <<managers, stereo>>

(* line 58, then the call of lines 61-66 *)
DvMkdtemp ==
    /\ video.pc = "dv_mkdtemp"
    /\ \/ video' = [video EXCEPT !.depth_maps_dir = "depth_maps",
                                 !.dirs = @ \cup {"depth_maps"},
                                 !.made = @ \cup {"depth_maps"}, !.pc = "ex_mkdtemp"]
       \/ VideoRaise("OSError", "dv_finally")
    /\ UNCHANGED <<managers, stereo>>

(* lines 70-73 *)
DvRead ==
    /\ video.pc = "dv_read"
    /\ IF video.pos <= Len(video.frame_files)
       THEN LET frame_path == video.frame_files[video.pos]
            IN  \/ video' = [video EXCEPT !.read = Append(@, frame_path),
                                          !.pc = "dv_depth"]
                \/ video' = [video EXCEPT !.read = Append(@, frame_path),
                                          !.skipped = @ \cup {frame_path},
                                          !.pos = @ + 1]
       ELSE video' = [video EXCEPT !.pc = "dv_zip"]
    /\ UNCHANGED <<managers, stereo>>

(* line 74: nothing catches what process_frame_depth raises *)
DvDepth ==
    /\ video.pc = "dv_depth"
    /\ \/ video' = [video EXCEPT !.pc = "dv_write"]
       \/ VideoRaise("RuntimeError", "dv_finally")
    /\ UNCHANGED <<managers, stereo>>

(* lines 76-78: depth_<stem of the source frame>.png *)
DvWrite ==
    /\ video.pc = "dv_write"
    /\ video' = [video EXCEPT !.written = Append(@, video.frame_files[video.pos]),
                              !.pos = @ + 1, !.pc = "dv_read"]
    /\ UNCHANGED <<managers, stereo>>

(* lines 80-87: the archive is built in memory; `return zip_buffer` enters the
   finally block *)
DvZip ==
    /\ video.pc = "dv_zip"
    /\ \/ video' = [video EXCEPT !.output = "memory", !.pc = "dv_finally"]
       \/ VideoRaise("OSError", "dv_finally")
    /\ UNCHANGED <<managers, stereo>>

(* lines 88-91 *)
DvFinally ==
    /\ video.pc = "dv_finally"
    /\ LET d1 == IF video.frames_dir # None
                 THEN Rmtree(video.dirs, video.frames_dir) ELSE video.dirs
           d2 == IF video.depth_maps_dir # None
                 THEN Rmtree(d1, video.depth_maps_dir) ELSE d1
       IN  video' = [video EXCEPT
                        !.dirs = d2,
                        !.result = IF video.exc = None THEN "returned" ELSE "raised",
                        !.pc = "done"]
    /\ UNCHANGED <<managers, stereo>>

----------------------------------------------------------------------------
(* routes/depth.py process_depth: one image, one inference *)

StartProcessDepth ==
    /\ video.op = "none"
    /\ video' = [video EXCEPT !.op = "process_depth", !.pc = "route_guard", !.frames = 1]
    /\ UNCHANGED <<managers, stereo>>

(* lines 41-42 inside the try of line 36; the handler of lines 72-73 *)
PdPredict ==
    /\ video.pc = "pd_predict"
    /\ \/ video' = [video EXCEPT !.read = <<1>>, !.pc = "pd_send"]
       \/ video' = [video EXCEPT !.read = <<1>>, !.exc = "RuntimeError",
                                 !.result = "500", !.pc = "done"]
    /\ UNCHANGED <<managers, stereo>>

(* lines 45-70: the normalised depth map is sent as a PNG *)
PdSend ==
    /\ video.pc = "pd_send"
    /\ video' = [video EXCEPT !.written = <<1>>, !.output = "response",
                              !.result = "200", !.pc = "done"]
    /\ UNCHANGED <<managers, stereo>>

----------------------------------------------------------------------------
(* The depth manager after initialize() has returned True for the default
   variant and the preference auto on a new manager (depth_model.py lines
   52-150): what the routes find when a model is resident *)
InitManagerLoaded ==
    /\ pipeline = [variant |-> DEFAULT_MODEL, device |-> ResolveDevice("auto"), id |-> 1]
    /\ device = ResolveDevice("auto")
    /\ current_model_key = DEFAULT_MODEL
    /\ last_used = timeout_minutes + 1
    /\ mock_downloaded = {}
    /\ now = timeout_minutes + 1
    /\ hf_cache = {DEFAULT_MODEL}
    /\ pc = [t \in Threads |-> IF t \in Monitors THEN "mon_sleep" ELSE "idle"]
    /\ call = [t \in Threads |-> NoCall]
    /\ tmp = [t \in Threads |-> NoneInst]
    /\ out = [t \in Threads |-> NoOut]
    /\ acts = [t \in Threads |-> NoActs]
    /\ calls = 0
    /\ last = NoLast

(* One request to a route of the video service or to the image route, on any
   host, with the depth model resident or not *)
InitVideo ==
    /\ cuda \in BOOLEAN
    /\ mps \in BOOLEAN
    /\ MOCK_DOWNLOADS = FALSE
    /\ SHARP_AVAILABLE = TRUE
    /\ InitManager \/ InitManagerLoaded
    /\ InitSharp
    /\ InitServices

NextVideo ==
    \/ RouteGuard
    \/ StartProcessSbsVideo
    \/ SbsMkdtemp
    \/ SbsExtract
    \/ SbsList
    \/ SbsWindow
    \/ SbsRead
    \/ SbsDepth
    \/ SbsWrite
    \/ SbsReclaim
    \/ SbsEncode
    \/ SbsMove
    \/ SbsFinally
    \/ StartExtractFrames
    \/ ExMkdtemp
    \/ ExRun
    \/ ExSort
    \/ ExExcept
    \/ StartProcessDepthVideo
    \/ DvMkdtemp
    \/ DvRead
    \/ DvDepth
    \/ DvWrite
    \/ DvZip
    \/ DvFinally
    \/ StartProcessDepth
    \/ PdPredict
    \/ PdSend

SpecVideo == InitVideo /\ [][NextVideo]_vars

----------------------------------------------------------------------------
(* Claims about the video pipelines *)

Ceil(n, b) == (n + b - 1) \div b

Range(f) == {f[k] : k \in DOMAIN f}

(* A call of process_sbs_video with a batch size of at least one frame *)
SbsCall ==
    /\ video.op = "process_sbs_video"
    /\ video.batch_size >= 1

(* The frame loop of such a call has ended without an exception *)
SbsLoopOver ==
    /\ SbsCall
    /\ video.pc = "sbs_encode" \/ video.encoder = "started"

(* The windows are the consecutive slices of batch_size frames, the last one
   possibly shorter, and every frame is in exactly one of them *)
WindowsPartitionFrames ==
    SbsLoopOver =>
        LET N == video.frames
            B == video.batch_size
            W == video.windows
        IN  /\ Len(W) = Ceil(N, B)
            /\ \A w \in 1..Len(W) :
                  /\ Len(W[w]) \in 1..B
                  /\ w < Len(W) => Len(W[w]) = B
                  /\ \A k \in 1..Len(W[w]) : W[w][k] = (w - 1) * B + k
            /\ \A f \in 1..N :
                  Cardinality({w \in 1..Len(W) : f \in Range(W[w])}) = 1

WindowsPartitionFramesWitness ==
    /\ SbsLoopOver
    /\ video.frames = 5
    /\ video.batch_size = 2
    /\ video.windows = << <<1, 2>>, <<3, 4>>, <<5>> >>

(* C21: process_sbs_video partitions the N extracted frames into ceil(N/B)
   consecutive windows of batch_size B >= 1 frames, the last possibly shorter,
   every frame in exactly one window, and device-memory reclamation is
   requested exactly once per window *)
WindowsPartitionFramesOneReclaimEach ==
    /\ WindowsPartitionFrames
    /\ SbsLoopOver => video.reclaims = Len(video.windows)

(* The window a frame belongs to *)
WindowOf(f) == CHOOSE w \in 1..Len(video.windows) : f \in Range(video.windows[w])

(* C22: in process_sbs_video the frames are read in strictly ascending source
   index; before any frame of a window is read, every readable frame of the
   windows before it has been written and their reclamations have been
   requested; a shorter last window is processed to its end; and the encoder
   is started only after the last window has completed *)
WindowsStrictlySequential ==
    SbsCall =>
        /\ \A i, j \in DOMAIN video.read : i < j => video.read[i] < video.read[j]
        /\ \A f \in Range(video.read) :
              /\ video.reclaims >= WindowOf(f) - 1
              /\ \A w \in 1..(WindowOf(f) - 1) :
                    Range(video.windows[w]) \ video.skipped \subseteq Range(video.written)
        /\ video.encoder = "started" =>
              /\ Len(video.windows) = Ceil(video.frames, video.batch_size)
              /\ Range(video.read) = 1..video.frames
              /\ Range(video.written) = (1..video.frames) \ video.skipped
              /\ video.reclaims = Len(video.windows)

(* The same without the reclamations: the order of the reads, the writes and
   the start of the encoder *)
WindowsSequentialApartFromReclaim ==
    SbsCall =>
        /\ \A i, j \in DOMAIN video.read : i < j => video.read[i] < video.read[j]
        /\ \A f \in Range(video.read) :
              \A w \in 1..(WindowOf(f) - 1) :
                  Range(video.windows[w]) \ video.skipped \subseteq Range(video.written)
        /\ video.encoder = "started" =>
              /\ Len(video.windows) = Ceil(video.frames, video.batch_size)
              /\ Range(video.read) = 1..video.frames
              /\ Range(video.written) = (1..video.frames) \ video.skipped

(* The frame loop of either pipeline has ended without an exception *)
FrameLoopOver ==
    \/ SbsLoopOver
    \/ video.op = "process_depth_video" /\ video.pc = "dv_zip"

(* C23: a frame that cannot be read is skipped and the loop goes on: after the
   frame loop every extracted frame has been read, the written outputs are
   exactly the readable frames, each once and under the index of its source
   frame, so the output has as many frames fewer as were skipped *)
UnreadableFramesSkipped ==
    FrameLoopOver =>
        /\ Range(video.read) = 1..video.frames
        /\ Range(video.written) = (1..video.frames) \ video.skipped
        /\ Len(video.written) = video.frames - Cardinality(video.skipped)

(* Frame 2 of three could not be read: outputs 1 and 3, in both pipelines'
   loops the same; here the stereo pipeline's *)
UnreadableFramesSkippedWitness ==
    /\ SbsLoopOver
    /\ video.frames = 3
    /\ video.skipped = {2}
    /\ video.written = <<1, 3>>

UnreadableFramesSkippedDepthWitness ==
    /\ video.op = "process_depth_video"
    /\ video.pc = "dv_zip"
    /\ video.skipped = {1}
    /\ video.written = <<2, 3>>

(* A depth inference has failed in a video pipeline *)
InferenceFailedInVideo ==
    /\ video.op \in {"process_sbs_video", "process_depth_video"}
    /\ video.exc = "RuntimeError"

(* C24: in the two video pipelines a depth-inference failure on one frame
   leaves that frame out and the call goes on to the later frames and to its
   artifact, while in a single-image request it fails the request *)
InferenceFailureSkipsFrameInVideo ==
    /\ InferenceFailedInVideo /\ video.pc = "done" =>
          /\ video.result = "returned"
          /\ OutputExists
          /\ Range(video.read) = 1..video.frames
    /\ video.op = "process_depth" /\ video.exc = "RuntimeError" /\ video.pc = "done" =>
          video.result = "500"

(* The single-image half: a failed inference is answered with status 500 and
   no depth map *)
InferenceFailureFailsImageRequest ==
    video.op = "process_depth" /\ video.pc = "done" =>
        (video.exc = "RuntimeError") = (video.result = "500" /\ video.output = "none")

(* C25: however process_sbs_video ends (it returns, or the extraction, a
   frame, or the encoder fails or times out), the working directory is gone
   when the call is over, and the path it returns names a file that exists
   outside the working directory *)
SbsAlwaysRemovesWorkDir ==
    video.op = "process_sbs_video" /\ video.pc = "done" =>
        /\ video.dirs = {}
        /\ video.result = "returned" =>
              /\ video.output = "tmpfile"
              /\ OutputExists
        /\ video.result = "raised" <=> video.exc # None

(* The encoder timed out after frames had been written *)
SbsAlwaysRemovesWorkDirWitness ==
    /\ video.op = "process_sbs_video"
    /\ video.pc = "done"
    /\ video.made = {"work"}
    /\ video.written # <<>>
    /\ video.exc = "TimeoutExpired"
    /\ video.encoder = "started"

SbsSuccessWitness ==
    /\ video.op = "process_sbs_video"
    /\ video.pc = "done"
    /\ video.made = {"work"}
    /\ video.result = "returned"

(* C26: however process_depth_video ends (it returns, or the extraction, an
   inference or the archive fails or times out), the frames directory and the
   depth-maps directory are both gone when the call is over *)
DepthVideoAlwaysRemovesBothDirs ==
    video.op = "process_depth_video" /\ video.pc = "done" =>
        /\ video.dirs = {}
        /\ video.result = "raised" <=> video.exc # None

(* The decoder timed out after both directories had been made *)
DepthVideoAlwaysRemovesBothDirsWitness ==
    /\ video.op = "process_depth_video"
    /\ video.pc = "done"
    /\ video.made = {"frames", "depth_maps"}
    /\ video.exc = "TimeoutExpired"

IsAscending(s) == \A k \in 1..(Len(s) - 1) : s[k] < s[k + 1]

(* C27: extract_frames returns the frames in ascending index together with
   their directory, which it leaves in place; when the decoder exits non-zero
   or times out, or anything else raises, the directory it made is gone when
   the error reaches the caller *)
ExtractFramesSortedOrCleansUp ==
    video.op = "extract_frames" /\ video.pc = "done" =>
        /\ video.result = "returned" =>
              /\ Range(video.frame_files) = 1..video.frames
              /\ IsAscending(video.frame_files)
              /\ video.frames_dir \in video.dirs
        /\ video.result = "raised" => video.dirs = {}

(* The same without the order of the list *)
ExtractFramesKeepsOrCleansUp ==
    video.op = "extract_frames" /\ video.pc = "done" =>
        /\ video.result = "returned" =>
              /\ Range(video.frame_files) = 1..video.frames
              /\ video.frames_dir \in video.dirs
        /\ video.result = "raised" => video.dirs = {}

(* Up to 9999 frames the list is in ascending index *)
ExtractFramesSortedBelowPadWidth ==
    video.op = "extract_frames" /\ video.result = "returned" /\ video.frames <= 9999 =>
        IsAscending(video.frame_files)

----------------------------------------------------------------------------
(* stereo_service.py: generate_stereo_pair_vectorized and compose_sbs_frame,
   called one after the other for every frame (video_service.py lines
   134-135).  An image is a function of the row 1..height and, in the row, of
   the column 1..width: column k is numpy's x = k - 1.

   Coordinates and interpolated pixel values are exact fractions, kept as
   integers in units of 1/Scale: a divergence is a number of half pixels, and
   depth / 255 has denominator 255.  numpy computes the same quantities in
   float32 and cv2.remap interpolates in fixed point, each to within its
   rounding *)
Scale == 510

PixelValues == {0, 255}
DepthLevels == {0, 128, 255}
Divergences == {0, 1, 2, 4}         \* 0.0, 0.5, 1.0 and the default 2.0
Formats     == {"SBS_FULL", "SBS_HALF"}

Shapes ==
    {s \in (1..MaxHeight) \X (1..MaxWidth) : s[1] * s[2] <= MaxPixels}

Images(s, values) == [1..s[1] -> [1..s[2] -> values]]

Height(img) == Len(img)
Width(img)  == Len(img[1])

(* Displacement without the inversion of line 17: depth_normalized * divergence *)
DisplacementNotInverted(depth_map, divergence) ==
    [y \in 1..Height(depth_map) |->
        [k \in 1..Width(depth_map) |-> depth_map[y][k] * divergence]]

(* lines 12 and 17: (1.0 - depth_map / 255.0) * divergence, in units of 1/Scale
   for a divergence given in half pixels *)
Displacement(depth_map, divergence) ==
    [y \in 1..Height(depth_map) |->
        [k \in 1..Width(depth_map) |-> (255 - depth_map[y][k]) * divergence]]

(* XMap with the columns counted from 1, np.arange(1, width + 1) *)
XMapFromOne(displacement, sign) ==
    [y \in 1..Height(displacement) |->
        [k \in 1..Width(displacement) |->
            k * Scale + sign * displacement[y][k]]]

(* lines 20 and 23-24: x_coords + sign * displacement *)
XMap(displacement, sign) ==
    [y \in 1..Height(displacement) |->
        [k \in 1..Width(displacement) |->
            (k - 1) * Scale + sign * displacement[y][k]]]

(* lines 20 and 27: y_coords *)
YMap(displacement) ==
    [y \in 1..Height(displacement) |->
        [k \in 1..Width(displacement) |-> (y - 1) * Scale]]

(* cv2.BORDER_REFLECT_101: gfedcb|abcdefgh|gfedcba, for any integer column *)
Reflect101(i, width) ==
    IF width = 1 THEN 0
    ELSE LET period == 2 * (width - 1)
             r == i % period
         IN  IF r < width THEN r ELSE period - r

(* cv2.remap(frame, map_x, map_y, cv2.INTER_LINEAR, BORDER_REFLECT_101) for a
   map_y that holds whole rows: the two columns around map_x, weighted by the
   distance to each; the value is in units of 1/Scale *)
Remap(frame, map_x, map_y) ==
    [y \in 1..Height(frame) |->
        [k \in 1..Width(frame) |->
            LET row  == frame[map_y[y][k] \div Scale + 1]
                x0   == map_x[y][k] \div Scale
                frac == map_x[y][k] % Scale
                a    == row[Reflect101(x0, Width(frame)) + 1]
                b    == row[Reflect101(x0 + 1, Width(frame)) + 1]
            IN  (Scale - frac) * a + frac * b]]

(* The frame itself as cv2.remap returns it for the identity maps *)
Unshifted(frame) ==
    [y \in 1..Height(frame) |-> [k \in 1..Width(frame) |-> Scale * frame[y][k]]]

StartStereo ==
    /\ stereo.pc = "idle"
    /\ \E s \in Shapes :
          \E frame \in Images(s, PixelValues), depth_map \in Images(s, DepthLevels),
             divergence \in Divergences, sbs_format \in Formats :
                stereo' = [stereo EXCEPT !.pc = "generate", !.frame = frame,
                                         !.depth_map = depth_map,
                                         !.divergence = divergence,
                                         !.sbs_format = sbs_format]
    /\ UNCHANGED <<managers, video>>

(* generate_stereo_pair_vectorized with x_coords + displacement for both eyes *)
GenerateStereoPairSameSide ==
    /\ stereo.pc = "generate"
    /\ LET displacement == Displacement(stereo.depth_map, stereo.divergence)
           x_left  == XMap(displacement, 1)
           x_right == XMap(displacement, 1)
           map_y   == YMap(displacement)
       IN  stereo' = [stereo EXCEPT
                         !.displacement = displacement,
                         !.x_left = x_left, !.x_right = x_right, !.map_y = map_y,
                         !.left_eye = Remap(stereo.frame, x_left, map_y),
                         !.right_eye = Remap(stereo.frame, x_right, map_y),
                         !.pc = "compose"]
    /\ UNCHANGED <<managers, video>>

(* generate_stereo_pair_vectorized, lines 4-37 *)
GenerateStereoPairVectorized ==
    /\ stereo.pc = "generate"
    /\ LET displacement == Displacement(stereo.depth_map, stereo.divergence)
           x_left  == XMap(displacement, 1)
           x_right == XMap(displacement, -1)
           map_y   == YMap(displacement)
       IN  stereo' = [stereo EXCEPT
                         !.displacement = displacement,
                         !.x_left = x_left, !.x_right = x_right, !.map_y = map_y,
                         !.left_eye = Remap(stereo.frame, x_left, map_y),
                         !.right_eye = Remap(stereo.frame, x_right, map_y),
                         !.pc = "compose"]
    /\ UNCHANGED <<managers, video>>

(* compose_sbs_frame, lines 40-53: the shape (height, width) of what it
   returns.  cv2.resize to a width of 0 raises cv2.error *)
ComposeSbsFrame ==
    /\ stereo.pc = "compose"
    /\ LET height == Height(stereo.left_eye)
           width  == Width(stereo.left_eye)
           half_width == width \div 2
       IN  IF stereo.sbs_format = "SBS_HALF"
           THEN IF half_width = 0
                THEN stereo' = [stereo EXCEPT !.exc = "cv2.error", !.pc = "done"]
                ELSE stereo' = [stereo EXCEPT
                                   !.sbs_shape = <<height, half_width + half_width>>,
                                   !.pc = "done"]
           ELSE stereo' = [stereo EXCEPT !.sbs_shape = <<height, width + width>>,
                                         !.pc = "done"]
    /\ UNCHANGED <<managers, video>>

(* One frame through the two functions, for every frame, depth map, divergence
   and format of the bounded sets *)
InitStereo ==
    /\ InitManager
    /\ InitSharp
    /\ InitServices
    /\ cuda = FALSE
    /\ mps = FALSE
    /\ MOCK_DOWNLOADS = FALSE
    /\ SHARP_AVAILABLE = TRUE

NextStereo ==
    \/ StartStereo
    \/ GenerateStereoPairVectorized
    \/ ComposeSbsFrame

SpecStereo == InitStereo /\ [][NextStereo]_vars

----------------------------------------------------------------------------
(* Claims about the stereo functions *)

(* C28: for every input width W >= 1 the composed frame is 2*W wide for
   SBS_FULL and exactly W wide for SBS_HALF, and as high as the input in both
   formats *)
SbsWidthFullDoubleHalfSame ==
    stereo.pc = "done" =>
        /\ stereo.exc = None
        /\ stereo.sbs_shape[1] = Height(stereo.frame)
        /\ stereo.sbs_shape[2] = IF stereo.sbs_format = "SBS_FULL"
                                 THEN 2 * Width(stereo.frame)
                                 ELSE Width(stereo.frame)

(* What compose_sbs_frame does: SBS_FULL is 2*W wide; SBS_HALF is W wide for
   an even W, W - 1 wide for an odd W > 1, and raises for W = 1 *)
SbsWidthAsComputed ==
    stereo.pc = "done" =>
        LET W == Width(stereo.frame)
        IN  IF stereo.sbs_format = "SBS_HALF" /\ W = 1
            THEN stereo.exc = "cv2.error"
            ELSE /\ stereo.exc = None
                 /\ stereo.sbs_shape[1] = Height(stereo.frame)
                 /\ stereo.sbs_shape[2] =
                       IF stereo.sbs_format = "SBS_FULL" THEN 2 * W
                       ELSE IF W % 2 = 0 THEN W ELSE W - 1

Generated == stereo.pc \in {"compose", "done"}

Pixels(img) == {<<y, k>> : y \in 1..Height(img), k \in 1..Width(img)}

IsUniform(img) == \A p, q \in Pixels(img) : img[p[1]][p[2]] = img[q[1]][q[2]]

(* C29: for every frame, every divergence and every uniform depth map,
   whatever its value, the displacement is zero at every pixel and the two
   eyes are identical *)
UniformDepthGivesZeroDisplacement ==
    Generated /\ IsUniform(stereo.depth_map) =>
        /\ \A p \in Pixels(stereo.frame) : stereo.displacement[p[1]][p[2]] = 0
        /\ stereo.left_eye = stereo.right_eye

(* C29 as the code has it: for a uniform depth map of value v the displacement
   is the same at every pixel, (1 - v/255) * divergence; it is zero exactly
   when the divergence is 0 or v is 255, and then both eyes are the unshifted
   frame *)
UniformDepthGivesUniformDisplacement ==
    Generated /\ IsUniform(stereo.depth_map) =>
        LET v == stereo.depth_map[1][1]
            d == stereo.displacement[1][1]
        IN  /\ \A p \in Pixels(stereo.frame) : stereo.displacement[p[1]][p[2]] = d
            /\ d = (255 - v) * stereo.divergence
            /\ d = 0 <=> (stereo.divergence = 0 \/ v = 255)
            /\ d = 0 => /\ stereo.left_eye = stereo.right_eye
                        /\ stereo.left_eye = Unshifted(stereo.frame)

(* A uniform depth map of the farthest value and the default divergence: no
   displacement, both eyes the frame *)
UniformDepthGivesUniformDisplacementWitness ==
    /\ Generated
    /\ Width(stereo.frame) = 3
    /\ IsUniform(stereo.depth_map)
    /\ stereo.depth_map[1][1] = 255
    /\ stereo.divergence = 4
    /\ ~IsUniform(stereo.frame)
    /\ stereo.left_eye = stereo.right_eye

(* C30: every pixel (x, y) is sampled at (x + d, y) for the left eye and at
   (x - d, y) for the right eye, d = (1 - depth/255) * divergence; with the
   depth map constant at mid-scale and divergence 2.0, d is one non-zero
   amount for all pixels, and each eye is the frame resampled d to one side *)
EyesDisplacedEqualAndOpposite ==
    Generated =>
        /\ \A p \in Pixels(stereo.frame) :
              LET y == p[1]
                  k == p[2]
                  d == (255 - stereo.depth_map[y][k]) * stereo.divergence
              IN  /\ stereo.displacement[y][k] = d
                  /\ stereo.x_left[y][k] = (k - 1) * Scale + d
                  /\ stereo.x_right[y][k] = (k - 1) * Scale - d
                  /\ stereo.map_y[y][k] = (y - 1) * Scale
        /\ stereo.left_eye = Remap(stereo.frame, stereo.x_left, stereo.map_y)
        /\ stereo.right_eye = Remap(stereo.frame, stereo.x_right, stereo.map_y)
        /\ IsUniform(stereo.depth_map) /\ stereo.depth_map[1][1] = 128
           /\ stereo.divergence = 4 =>
              \A p \in Pixels(stereo.frame) :
                  /\ stereo.x_left[p[1]][p[2]] - (p[2] - 1) * Scale = 508
                  /\ (p[2] - 1) * Scale - stereo.x_right[p[1]][p[2]] = 508

(* Mid-scale depth everywhere, divergence 2.0, a frame with an edge in it: the
   eyes differ from each other and from the frame *)
EyesDisplacedEqualAndOppositeWitness ==
    /\ Generated
    /\ Width(stereo.frame) = 3
    /\ IsUniform(stereo.depth_map)
    /\ stereo.depth_map[1][1] = 128
    /\ stereo.divergence = 4
    /\ stereo.frame[1] = <<0, 0, 255>>
    /\ stereo.left_eye # stereo.right_eye
    /\ stereo.left_eye # Unshifted(stereo.frame)
    /\ stereo.right_eye # Unshifted(stereo.frame)

(* C31: with divergence 0, for every frame and every depth map, both eyes are
   sampled at the pixel's own coordinates, and the left eye, the right eye
   and the source frame are the same image *)
ZeroDivergenceIsIdentity ==
    Generated /\ stereo.divergence = 0 =>
        /\ \A p \in Pixels(stereo.frame) :
              /\ stereo.x_left[p[1]][p[2]] = (p[2] - 1) * Scale
              /\ stereo.x_right[p[1]][p[2]] = (p[2] - 1) * Scale
              /\ stereo.map_y[p[1]][p[2]] = (p[1] - 1) * Scale
        /\ stereo.left_eye = stereo.right_eye
        /\ stereo.left_eye = Unshifted(stereo.frame)

(* A frame with an edge and a depth map that is not uniform, divergence 0 *)
ZeroDivergenceIsIdentityWitness ==
    /\ Generated
    /\ stereo.divergence = 0
    /\ Width(stereo.frame) = 3
    /\ ~IsUniform(stereo.frame)
    /\ ~IsUniform(stereo.depth_map)
    /\ stereo.left_eye = Unshifted(stereo.frame)

(* C32: a depth or stereo-video conversion request that arrives while the
   depth manager is Unloaded is not rejected for want of a resident model: it
   reaches predict, the model is loaded, and the request is served *)
RequestWhileUnloadedIsServed ==
    /\ video.op \in {"process_depth", "process_sbs_video", "process_depth_video"}
    /\ video.pc = "done"
    => /\ video.result # "503"
       /\ is_loaded

(* What the routes do: the request is answered 503 exactly when no model is
   resident as it arrives, then nothing of the service has run and the manager
   is as it was *)
RouteRejectsIffUnloaded ==
    video.pc = "done" =>
        /\ video.result = "503" <=> ~is_loaded
        /\ video.result = "503" =>
              /\ video.read = <<>>
              /\ video.made = {}
              /\ video.output = "none"

----------------------------------------------------------------------------
(* Claims about the managers, for calls that do not overlap *)

(* An explicit unload of the depth manager, or of the splat manager, has come
   to its end *)
UnloadDone(t) == pc[t] = "done" /\ call[t].name = "unload"

SharpUnloadDone(t) == pc[t] = "done" /\ call[t].name = "sharp_unload"

(* C33: unload is idempotent and total: after it the manager reports loaded =
   false and no current variant; on an Unloaded manager it changes nothing and
   requests no reclamation; on a Loaded manager it releases the backend and
   requests reclamation once *)
UnloadIdempotentAndTotal ==
    \A t \in Callers :
        /\ UnloadDone(t) =>
              /\ out[t].status = "returned"
              /\ get_status(hf_cache).loaded = FALSE
              /\ get_status(hf_cache).current_model = None
              /\ IF acts[t].pre = NoneInst
                 THEN /\ acts[t].unloads = 0
                      /\ acts[t].reclaims = 0
                      /\ Fields = acts[t].was
                 ELSE /\ acts[t].unloads = 1
                      /\ acts[t].reclaims = 1
        /\ SharpUnloadDone(t) =>
              /\ out[t].status = "returned"
              /\ sharp_model = NoneInst
              /\ IF acts[t].pre = NoneInst
                 THEN acts[t].unloads = 0 /\ acts[t].reclaims = 0
                 ELSE acts[t].unloads = 1 /\ acts[t].reclaims = 1

(* A resident depth model has been unloaded *)
UnloadIdempotentAndTotalWitness ==
    /\ UnloadDone("req1")
    /\ IsInstance(acts["req1"].pre)
    /\ acts["req1"].was.key = "small"
    /\ acts["req1"].reclaims = 1
    /\ pipeline = NoneInst

(* An unload of a depth manager that was unloaded already, the second call of
   the behaviour *)
UnloadOfUnloadedWitness ==
    /\ UnloadDone("req1")
    /\ acts["req1"].pre = NoneInst
    /\ calls = 2

(* A resident splat model has been unloaded *)
SharpUnloadWitness ==
    /\ SharpUnloadDone("req1")
    /\ IsInstance(acts["req1"].pre)
    /\ sharp_model = NoneInst

(* A delete_model call has returned *)
DeleteDone(t) == pc[t] = "done" /\ call[t].name = "delete"

(* The resident model, its device and its time of last use are as they were
   when the call started *)
ResidentUnchanged(t) ==
    /\ pipeline = acts[t].pre
    /\ current_model_key = acts[t].was.key
    /\ device = acts[t].was.device
    /\ last_used = acts[t].was.last_used

(* C34: after delete_model(k) returns, the current variant is not k and
   get_status().downloaded_models does not contain k; when k was not the
   resident variant the resident model, its device and last_used are
   unchanged *)
DeleteRemovesVariantAndKeepsOthers ==
    \A t \in Callers :
        DeleteDone(t) =>
            /\ current_model_key # call[t].key
            /\ call[t].key \notin get_status(hf_cache).downloaded_models
            /\ acts[t].was.key # call[t].key => ResidentUnchanged(t)

(* What delete_model does do: it returns True, the deleted variant is not the
   current one afterwards, it leaves the reported downloads only under the
   mock flag, and another resident variant is left alone *)
DeleteUnloadsVariantAndKeepsOthers ==
    \A t \in Callers :
        DeleteDone(t) =>
            /\ out[t].status = "True"
            /\ current_model_key # call[t].key
            /\ MOCK_DOWNLOADS =>
                   call[t].key \notin get_status(hf_cache).downloaded_models
            /\ acts[t].was.key # call[t].key => ResidentUnchanged(t)

(* A downloaded variant has been deleted without the mock flag and is still in
   the cache *)
DeleteLeavesCacheWitness ==
    /\ DeleteDone("req1")
    /\ ~MOCK_DOWNLOADS
    /\ call["req1"].key \in hf_cache

(* The monitor thread's unload takes effect: it deletes the backend (line 197,
   reached from line 46) *)
MonitorEvicts ==
    /\ pc[Monitor] = "unl_del"
    /\ pc'[Monitor] = "unl_none"

(* The splat monitor's unload takes effect (sharp_model.py line 155, reached
   from line 61) *)
SharpMonitorEvicts ==
    /\ pc[SharpMonitor] = "sunl_del"
    /\ pc'[SharpMonitor] = "sunl_none"

(* C35: the idle monitor unloads a resident model only when it is really
   idle: at the step where the monitor's unload takes effect, the time since
   the most recent refresh of last_used exceeds the timeout *)
MonitorEvictsOnlyIdleModel ==
    [][/\ MonitorEvicts => now - last_used > timeout_minutes
       /\ SharpMonitorEvicts => now - sharp_last_used > timeout_minutes]_vars

(* The monitor is about to delete the backend of a model that a predict has
   used at this very time *)
JustUsedModelEvictedWitness ==
    /\ pc[Monitor] = "unl_del"
    /\ IsInstance(pipeline)
    /\ last_used = now
    /\ \E t \in Callers : call[t].name = "predict" /\ pc[t] = "pred_check"

(* No call is in progress: every request thread is idle or has its outcome,
   and the monitors sleep *)
NoCallInProgress ==
    \A t \in Threads : pc[t] \in {"idle", "done", "mon_sleep", "mon_dead"}

(* C36: after any sequence of non-overlapping calls to load, switch, predict,
   unload, download_model and delete_model, the depth manager is loaded if
   and only if its current variant is not none, and the current variant is
   none or a key of the catalogue *)
LoadedIffCurrentVariant ==
    NoCallInProgress =>
        /\ get_status(hf_cache).loaded <=> get_status(hf_cache).current_model # None
        /\ current_model_key \in AVAILABLE_MODELS \cup {None}
        /\ IsInstance(pipeline) => pipeline.variant = current_model_key

(* A second call has ended and left a model resident *)
LoadedIffCurrentVariantWitness ==
    /\ NoCallInProgress
    /\ calls = 2
    /\ pc["req1"] = "done"
    /\ is_loaded
    /\ current_model_key = "large"

(* A load that had to unload another variant has failed and has ended *)
ReplacingLoadFailedWitness ==
    /\ pc["req1"] = "done"
    /\ call["req1"].name \in {"load", "switch", "predict"}
    /\ acts["req1"].threw
    /\ acts["req1"].unloads = 1
    /\ ~is_loaded
    /\ current_model_key = None

(* A predict has ended with a result after instantiating a backend itself
   (lazy load of lines 252-255, or switch of lines 257-259; splat manager:
   sharp_model.py lines 302-303) *)
PredictLoaded(t) ==
    /\ pc[t] = "done"
    /\ call[t].name = "predict"
    /\ out[t].status = "result"
    /\ acts[t].attempts >= 1

SharpPredictLoaded(t) ==
    /\ pc[t] = "done"
    /\ call[t].name = "sharp_predict"
    /\ out[t].status = "result"
    /\ acts[t].attempts >= 1

(* C37: the device preference given to load/switch is not retained: a load
   made from inside predict resolves the device with the preference auto,
   whatever device the manager used before, so it lands on an accelerator
   whenever one is available *)
PredictLoadsWithAutoDevice ==
    \A t \in Callers :
        /\ PredictLoaded(t) =>
              /\ device = IF MOCK_DOWNLOADS THEN CpuDevice ELSE ResolveDevice("auto")
              /\ pipeline.device = device
              /\ ~MOCK_DOWNLOADS /\ (cuda \/ mps) => device # CpuDevice
        /\ SharpPredictLoaded(t) =>
              /\ sharp_device = SharpTargetDevice("auto")
              /\ sharp_model.device = sharp_device
              /\ (cuda \/ mps) => sharp_device # "cpu"

(* A variant is resident on the cpu on a host with CUDA; a predict for
   another variant has replaced it, on CUDA *)
PredictSwitchLeavesCpuWitness ==
    /\ PredictLoaded("req1")
    /\ cuda /\ ~MOCK_DOWNLOADS
    /\ IsInstance(acts["req1"].pre)
    /\ acts["req1"].pre.device = CpuDevice
    /\ acts["req1"].was.key = "small"
    /\ pipeline.variant = "large"
    /\ pipeline.device = CudaDevice

(* The idle monitor is unloading a variant that is resident on the cpu on a
   host with CUDA: when it is done the manager holds nothing, its device is
   still the cpu and the files of the variant are in the cache *)
CpuModelEvictedWitness ==
    /\ pc[Monitor] = "unl_key"
    /\ cuda /\ ~MOCK_DOWNLOADS
    /\ device = CpuDevice
    /\ current_model_key = "large"
    /\ hf_cache = {"large"}
    /\ last_used = timeout_minutes + 1
    /\ now = MaxTime

(* From that state of the manager (nothing resident, device cpu, last use
   before the timeout, the files of large in the cache) a predict has loaded
   lazily, on CUDA *)
PredictAfterEvictionLeavesCpuWitness ==
    /\ PredictLoaded("req1")
    /\ cuda /\ ~MOCK_DOWNLOADS
    /\ calls = 2
    /\ call["req1"].key = "small"
    /\ acts["req1"].pre = NoneInst
    /\ acts["req1"].was =
           [key |-> None, device |-> CpuDevice, last_used |-> timeout_minutes + 1,
            downloaded |-> {}]
    /\ now = MaxTime
    /\ hf_cache = {"small", "large"}
    /\ pipeline.device = CudaDevice

(* The same for the splat manager *)
SharpPredictLeavesCpuWitness ==
    /\ SharpPredictLoaded("req1")
    /\ cuda
    /\ calls = 2
    /\ sharp_device = "cuda"
    /\ now = MaxTime

----------------------------------------------------------------------------
(* Termination of the window loop.  The call runs on a request thread that
   keeps running, every statement of the loop ends, and the two subprocesses
   have timeouts (lines 115 and 161): a step that can be taken is taken *)
SpecVideoFair == InitVideo /\ [][NextVideo]_vars /\ WF_vars(NextVideo)

(* The service has been called (the route did not answer 503) and the call
   has ended *)
SbsCallEnded ==
    /\ video.op = "process_sbs_video"
    /\ video.pc = "done"
    /\ video.result \in {"returned", "raised"}

(* With a batch size of at least one the loop ends after ceil(N/B) windows
   that hold all N frames, every one of them read *)
SbsLoopEndsAfterAllWindows ==
    SbsLoopOver =>
        /\ Len(video.windows) = Ceil(video.frames, video.batch_size)
        /\ UNION {Range(video.windows[w]) : w \in DOMAIN video.windows}
              = 1..video.frames
        /\ Range(video.read) = 1..video.frames

(* With a batch size of zero range() raises before the first window and the
   encoder is never started; with a negative one the loop body never runs and
   the encoder finds no frame.  Either way the call raises (if not earlier, in
   mkdtemp or in the extraction), returns no video and removes its working
   directory *)
NonPositiveBatchFails ==
    SbsCallEnded /\ video.batch_size <= 0 =>
        /\ video.result = "raised"
        /\ video.exc # None
        /\ ~OutputExists
        /\ video.windows = <<>> /\ video.read = <<>> /\ video.written = <<>>
        /\ video.dirs = {}
        /\ video.batch_size = 0 => video.encoder = "none"
        /\ video.batch_size < 0 => video.exc # "ValueError"

(* C38: the window loop of process_sbs_video terminates for every frame count
   N >= 0 and every integer batch size: for a batch size of at least one it
   ends after ceil(N/B) windows that visited all N frames; for a batch size of
   zero or less the call does not loop forever and produces no video, it
   fails with an error and the working directory is removed *)
SbsWindowLoopTerminates ==
    /\ [](SbsLoopEndsAfterAllWindows /\ NonPositiveBatchFails)
    /\ (video.op = "process_sbs_video") ~> (video.pc = "done")

(* A call with a batch size of zero has ended with range()'s ValueError and
   its working directory, which it had made, is gone *)
SbsWindowLoopTerminatesWitness ==
    /\ SbsCallEnded
    /\ video.batch_size = 0
    /\ video.frames = 3
    /\ video.exc = "ValueError"
    /\ "work" \in video.made
    /\ video.dirs = {}

(* A call with a negative batch size has ended: no window, no frame read, the
   encoder failed *)
NegativeBatchFailsWitness ==
    /\ SbsCallEnded
    /\ video.batch_size = -1
    /\ video.frames = 3
    /\ video.encoder = "started"
    /\ video.exc = "CalledProcessError"
    /\ video.dirs = {}

(* Five frames in windows of two: three windows, and the call returns *)
SbsLoopEndsWitness ==
    /\ SbsCallEnded
    /\ video.result = "returned"
    /\ video.frames = 5
    /\ video.batch_size = 2
    /\ Len(video.windows) = 3

============================================================================
